---------------------------- MODULE Spec2Model ----------------------------
(***************************************************************************)
(* A model of the chladni-mobius repository: the Hilbert indexer           *)
(* (src/geometry/hilbert.js), the grid generator with its flyweight cell   *)
(* cache (src/geometry/gridGenerator.js, gridCellFactory.js,               *)
(* GridCell.js), the rotation modulator driven by the animation loop       *)
(* (src/state.js,                                                          *)
(* src/renderer.js), and the deformation pipeline in its two forms: the    *)
(* matrix functions of src/transforms/transformation.js and the vertex     *)
(* program of src/materials/clothMaterial.js with the uniforms the         *)
(* animation loop writes, the grid and cell-transform uniforms included.   *)
(*                                                                         *)
(* Numbers.  Times are counted in frame steps: the animation loop adds     *)
(* 0.01 to the timers in every frame, so a timer value t of the model is   *)
(* the program's 0.01 * t, and an interval of i steps is the program's     *)
(* 0.01 * i seconds.  The sums are exact here: the rounding error of the   *)
(* program's binary floating-point additions is not modelled.              *)
(***************************************************************************)
EXTENDS Integers, Sequences, FiniteSets, TLC

VARIABLES
    \* hilbertIndex(n, x, y): its call frame
    hPc,        \* "idle" (no call), "loop" (at the loop test), "done" (returned)
    hN,         \* parameter n
    hX,         \* parameter x (reassigned by the loop)
    hY,         \* parameter y (reassigned by the loop)
    hS,         \* loop variable s
    hIndex,     \* local index, the return value once hPc = "done"
    hArgs,      \* the arguments (x, y) the call was made with
    \* grid generator and cell factory
    gridRows,   \* stateStore.grid.rows
    gridCols,   \* stateStore.grid.cols
    cells,      \* the GridCell objects allocated so far; a reference is an index
    cellCache,  \* the module-level Map of gridCellFactory.js: key -> reference
    gen,        \* the last generateGrid call: its locals rows, cols and its result
    returned,   \* history: every <<x, y, reference>> getGridCell has returned
    \* state store and animation loop
    time,               \* stateStore.time
    rotationTimer,      \* stateStore.runtime.rotationTimer
    lastRotationTime,   \* stateStore.runtime.lastRotationTime
    rotationDirection,  \* stateStore.runtime.rotationDirection
    rotationModulation, \* stateStore.transform.rotationModulation
    mobiusFactor,       \* stateStore.transform.mobiusFactor, in tenths
    lastFlip,           \* history: rotationTimer at the last frame or call that
                        \* changed rotationDirection, -1 before the first one
    switches,           \* history: how many calls of updateRotationDirection
                        \* have entered the transition branch
    \* deformation pipeline
    transform,  \* the pipeline fields of stateStore.transform
    uniforms,   \* the pipeline uniforms of the cloth material, with its clock
    probe,      \* the last call of a pipeline function: name, arguments, outcome
    noiseSeed,  \* the seed the noise functions were created from
    \* cell shader
    storeGrid,  \* stateStore.grid: its fields size, resolution, density, needsUpdate
    activeCellTransforms,   \* stateStore.interactions.activeCellTransforms
    cellUniforms            \* the grid and cell-transform uniforms of the material

hilbertVars == <<hPc, hN, hX, hY, hS, hIndex, hArgs>>
gridVars == <<gridRows, gridCols, cells, cellCache, gen, returned>>
rotationVars == <<time, rotationTimer, lastRotationTime, rotationDirection,
                  rotationModulation, mobiusFactor, lastFlip, switches>>
transformVars == <<transform, uniforms, probe, noiseSeed>>
surfaceVars == <<storeGrid, activeCellTransforms, cellUniforms>>
vars == <<hilbertVars, gridVars, rotationVars, transformVars, surfaceVars>>

-----------------------------------------------------------------------------
(* Bounds of the model *)

\* hilbertIndex is called with every grid side n in 0 .. MaxN
MaxN == 16

\* stateStore.grid.rows and cols are drawn from -1 .. MaxSide
MaxSide == 8

GridSides == -1 .. MaxSide

\* The sides a host gives stateStore.grid when it reconfigures the grid
RegridSides == {1, 2, 3}

\* getGridCell is called from outside with these coordinates
ProbeCoords == {<<3, 5>>, <<5, 3>>}

\* The animation loop runs MaxFrames frames
MaxFrames == 700

\* The values updateTransformParams gives rotationModulation.interval (in frame
\* steps: 500 is the store's 5.0 seconds), patternThreshold and pattern ("other"
\* is a name the switch does not know), and mobiusFactor (in tenths)
Intervals == {50, 100, 500}

Thresholds == {3, 5}

Patterns == {"kaprekar", "heaviside", "sine", "random", "other"}

MobiusFactors == {0, 3, -3}

\* The frames after which the "Enable Rotation Mod" checkbox may be clicked
UiFrames == {120, 330}

Modulations ==
    [enabled : BOOLEAN, interval : Intervals, pattern : Patterns,
     patternThreshold : Thresholds]

-----------------------------------------------------------------------------
(* JavaScript's integer operators, on two's-complement integers *)

\* a & b
RECURSIVE BitAnd(_, _)
BitAnd(a, b) ==
    IF a = 0 \/ b = 0 THEN 0
    ELSE IF a = -1 THEN b
    ELSE IF b = -1 THEN a
    ELSE (a % 2) * (b % 2) + 2 * BitAnd(a \div 2, b \div 2)

\* a ^ b
RECURSIVE BitXor(_, _)
BitXor(a, b) ==
    IF a = 0 THEN b
    ELSE IF b = 0 THEN a
    ELSE IF a = -1 THEN -b - 1
    ELSE IF b = -1 THEN -a - 1
    ELSE (((a % 2) + (b % 2)) % 2) + 2 * BitXor(a \div 2, b \div 2)

\* Faulty variant: the shift leaves 1 where it is, so a step never reaches 0
ShiftRight1Sticky(a) == IF a = 1 THEN 1 ELSE a \div 2

\* a >> 1
ShiftRight1(a) == a \div 2

-----------------------------------------------------------------------------
(* JavaScript's numbers in the deformation pipeline: exact rationals <<n, d>>  *)
(* with d > 0 in lowest terms.  Sums, products, quotients and comparisons   *)
(* are exact; Math.sin, Math.cos and Math.sqrt are evaluated to a           *)
(* resolution of 0.001 (exactly where the exact value is rational and       *)
(* representable: sin 0 = 0, cos 0 = 1, square roots of squares).           *)

\* The greatest common divisor (a, b >= 0)
RECURSIVE GCD(_, _)
GCD(a, b) == IF b = 0 THEN a ELSE GCD(b, a % b)

\* The number n / d (d # 0) in lowest terms with a positive denominator
Rat(n, d) ==
    LET an == IF n < 0 THEN -n ELSE n
        ad == IF d < 0 THEN -d ELSE d
        g  == GCD(an, ad)
        sg == IF (n < 0) = (d < 0) THEN 1 ELSE -1
    IN  IF n = 0 THEN <<0, 1>> ELSE <<sg * (an \div g), ad \div g>>

\* An integer literal
Num(n) == <<n, 1>>

\* The element of a singleton.  The({ e : v \in {d} }) is e with v naming the
\* value of d, computed once: the form a const declaration takes here.
The(S) == CHOOSE v \in S : TRUE

\* a + b, over the least common denominator
RatAdd(a, b) ==
    LET g == GCD(a[2], b[2])
    IN  Rat(a[1] * (b[2] \div g) + b[1] * (a[2] \div g), a[2] * (b[2] \div g))

\* -a
RatNeg(a) == <<-a[1], a[2]>>

\* a - b
RatSub(a, b) == RatAdd(a, RatNeg(b))

\* a * b, cancelling across before multiplying
RatMul(a, b) ==
    LET x == Rat(a[1], b[2])
        y == Rat(b[1], a[2])
    IN  <<x[1] * y[1], x[2] * y[2]>>

\* a / b (b # 0)
RatDiv(a, b) == RatMul(a, Rat(b[2], b[1]))

\* a < b
RatLess(a, b) == a[1] * b[2] < b[1] * a[2]

\* Math.floor
Floor(a) == a[1] \div a[2]

\* The integer square root: the largest r with r * r <= n
RECURSIVE ISqrtFrom(_, _)
ISqrtFrom(n, r) ==
    LET next == (r + n \div r) \div 2
    IN  IF next >= r THEN r ELSE ISqrtFrom(n, next)

\* Newton's iteration from above
ISqrt(n) == IF n < 2 THEN n ELSE ISqrtFrom(n, n \div 2 + 1)

\* n is the square of an integer
IsSquare(n) == ISqrt(n) * ISqrt(n) = n

\* Math.sqrt (a >= 0): exact for a square, else to the resolution
Sqrt(a) ==
    IF IsSquare(a[1]) /\ IsSquare(a[2])
    THEN Rat(ISqrt(a[1]), ISqrt(a[2]))
    ELSE Rat(ISqrt(Floor(RatMul(a, Num(1000000)))), 1000)

\* a in thousandths, rounded down
Milli(a) == Floor(RatMul(a, Num(1000)))

\* The sine series on 0 .. pi/2, argument and value in thousandths
SinSeries(x) ==
    LET x2 == (x * x) \div 1000
        t3 == ((x * x2) \div 1000) \div 6
        t5 == ((t3 * x2) \div 1000) \div 20
        t7 == ((t5 * x2) \div 1000) \div 42
        t9 == ((t7 * x2) \div 1000) \div 72
    IN  x - t3 + t5 - t7 + t9

\* The cosine series on 0 .. pi/2, argument and value in thousandths
CosSeries(x) ==
    LET x2 == (x * x) \div 1000
        t2 == x2 \div 2
        t4 == ((t2 * x2) \div 1000) \div 12
        t6 == ((t4 * x2) \div 1000) \div 30
        t8 == ((t6 * x2) \div 1000) \div 56
    IN  1000 - t2 + t4 - t6 + t8

\* The argument reduced to one turn, 0 .. 6283 thousandths
Turn(a) == (Floor(RatMul(a, Num(1000000))) % 6283185) \div 1000

\* The sine of m thousandths, 0 <= m <= 6283
SinAt(m) ==
    LET v == IF m <= 1571 THEN SinSeries(m)
             ELSE IF m <= 3142 THEN SinSeries(3142 - m)
             ELSE IF m <= 4712 THEN -SinSeries(m - 3142)
             ELSE -SinSeries(6283 - m)
    IN  Rat(v, 1000)

\* The cosine of m thousandths, 0 <= m <= 6283
CosAt(m) ==
    LET v == IF m <= 1571 THEN CosSeries(m)
             ELSE IF m <= 3142 THEN -CosSeries(3142 - m)
             ELSE IF m <= 4712 THEN -CosSeries(m - 3142)
             ELSE CosSeries(6283 - m)
    IN  Rat(v, 1000)

\* The values over one turn, tabulated once
SinTable == [i \in 1 .. 6284 |-> SinAt(i - 1)] \o <<>>

CosTable == [i \in 1 .. 6284 |-> CosAt(i - 1)] \o <<>>

\* Math.sin
Sin(a) == SinTable[Turn(a) + 1]

\* Math.cos
Cos(a) == CosTable[Turn(a) + 1]

-----------------------------------------------------------------------------
(* src/geometry/hilbert.js *)

\* const rx = (x & s) > 0 ? 1 : 0   (and the same for ry)
QuadrantBit(v, s) == IF BitAnd(v, s) > 0 THEN 1 ELSE 0

\* Faulty variant: the digit is weighted by s instead of s * s
AccumulateLinear(index, s, rx, ry) == index + s * BitXor(3 * rx, ry)

\* index += s * s * ((3 * rx) ^ ry)
Accumulate(index, s, rx, ry) == index + s * s * BitXor(3 * rx, ry)

\* Faulty variant: the quadrant is swapped but never reflected
RotateSwapOnly(n, x, y, rx, ry) == IF ry = 0 THEN <<y, x>> ELSE <<x, y>>

\* The rotation of the loop body: the new <<x, y>>
Rotate(n, x, y, rx, ry) ==
    IF ry = 0
    THEN IF rx = 1 THEN <<n - 1 - y, n - 1 - x>> ELSE <<y, x>>
    ELSE <<x, y>>

\* One iteration of the loop, on the frame f = [s, x, y, index]
hilbertBody(n, f) ==
    LET rx == QuadrantBit(f.x, f.s)
        ry == QuadrantBit(f.y, f.s)
        xy == Rotate(n, f.x, f.y, rx, ry)
    IN  [s     |-> ShiftRight1(f.s),
         x     |-> xy[1],
         y     |-> xy[2],
         index |-> Accumulate(f.index, f.s, rx, ry)]

RECURSIVE hilbertLoop(_, _)
hilbertLoop(n, f) == IF f.s > 0 THEN hilbertLoop(n, hilbertBody(n, f)) ELSE f.index

\* hilbertIndex(n, x, y) as the function it computes
hilbertIndex(n, x, y) ==
    hilbertLoop(n, [s |-> ShiftRight1(n), x |-> x, y |-> y, index |-> 0])

\* The coordinates of an n x n grid
Side(n) == 0 .. (n - 1)

\* The call hilbertIndex(n, x, y) is entered: let index = 0, s = n >> 1
hilbertEnter ==
    /\ hPc \in {"idle", "done"}
    /\ \E n \in 0 .. MaxN :
         \E x \in Side(n) \cup {0}, y \in Side(n) \cup {0} :
            /\ hN' = n
            /\ hX' = x
            /\ hY' = y
            /\ hArgs' = <<x, y>>
            /\ hS' = ShiftRight1(n)
            /\ hIndex' = 0
    /\ hPc' = "loop"
    /\ UNCHANGED <<gridVars, rotationVars, transformVars, surfaceVars>>

\* The loop test holds: one iteration
hilbertIterate ==
    /\ hPc = "loop"
    /\ hS > 0
    /\ LET f == hilbertBody(hN, [s |-> hS, x |-> hX, y |-> hY, index |-> hIndex])
       IN  /\ hS' = f.s
           /\ hX' = f.x
           /\ hY' = f.y
           /\ hIndex' = f.index
    /\ UNCHANGED <<hPc, hN, hArgs>>
    /\ UNCHANGED <<gridVars, rotationVars, transformVars, surfaceVars>>

\* The loop test fails: return index
hilbertReturn ==
    /\ hPc = "loop"
    /\ ~(hS > 0)
    /\ hPc' = "done"
    /\ UNCHANGED <<hN, hX, hY, hS, hIndex, hArgs>>
    /\ UNCHANGED <<gridVars, rotationVars, transformVars, surfaceVars>>

-----------------------------------------------------------------------------
(* src/geometry/GridCell.js, gridCellFactory.js, gridGenerator.js *)

\* new GridCell(x, y)
GridCell(x, y) == [baseX |-> x, baseY |-> y]

\* Faulty variant: the key is built from the sum of the coordinates
KeyOfSum(x, y) == ToString(x + y)

\* The cache key: the template literal `${x},${y}`
Key(x, y) == ToString(x) \o "," \o ToString(y)

\* new Map()
EmptyMap == [k \in {} |-> 0]

\* Faulty variant: the cache is not consulted, every call allocates
getGridCellAlwaysNew(heap, cache, x, y) ==
    LET key == Key(x, y)
        heap2 == Append(heap, GridCell(x, y))
        cache2 == [k \in DOMAIN cache \cup {key} |->
                      IF k = key THEN Len(heap2) ELSE cache[k]]
    IN  [cells |-> heap2, cellCache |-> cache2, cell |-> cache2[key]]

\* getGridCell(x, y) on the heap and the cache: the heap and the cache after the
\* call, and the reference returned
getGridCell(heap, cache, x, y) ==
    LET key == Key(x, y)
        miss == key \notin DOMAIN cache
        heap2 == IF miss THEN Append(heap, GridCell(x, y)) ELSE heap
        cache2 == IF miss THEN cache @@ (key :> Len(heap2)) ELSE cache
    IN  [cells |-> heap2, cellCache |-> cache2, cell |-> cache2[key]]

\* Faulty variant: the outer loop runs while y <= rows
RECURSIVE gridLoopInclusive(_, _, _)
gridLoopInclusive(rows, cols, st) ==
    LET k == Len(st.grid)
        y == k \div cols
        x == k % cols
    IN  IF cols <= 0 \/ ~(y <= rows) THEN st
        ELSE LET r == getGridCell(st.cells, st.cellCache, x, y)
             IN  gridLoopInclusive(rows, cols,
                                   [cells     |-> r.cells,
                                    cellCache |-> r.cellCache,
                                    grid      |-> Append(st.grid, r.cell),
                                    returned  |-> st.returned \cup {<<x, y, r.cell>>}])

\* The nested loops of generateGrid (for y in 0 .. rows-1, for x in 0 .. cols-1),
\* resumed after the Len(st.grid) iterations already made: iteration number k
\* (from 0) is the one with y = k \div cols and x = k % cols.
\* st = [cells, cellCache, grid, returned]
RECURSIVE gridLoop(_, _, _)
gridLoop(rows, cols, st) ==
    LET k == Len(st.grid)
        y == k \div cols
        x == k % cols
    IN  IF cols <= 0 \/ ~(y < rows) THEN st
        ELSE LET r == getGridCell(st.cells, st.cellCache, x, y)
             IN  gridLoop(rows, cols,
                          [cells     |-> r.cells,
                           cellCache |-> r.cellCache,
                           grid      |-> Append(st.grid, r.cell),
                           returned  |-> st.returned \cup {<<x, y, r.cell>>}])

\* Faulty variant: every square grid is sorted
sortConditionSquareOnly(rows, cols) == rows = cols

\* rows === cols && (rows & (rows - 1)) === 0
sortCondition(rows, cols) == rows = cols /\ BitAnd(rows, rows - 1) = 0

\* The comparator handed to grid.sort, on the two indices it computes:
\* return indexA - indexB
compareFn(indexA, indexB) == indexA - indexB

\* grid.sort((cellA, cellB) => ...).  The comparator's indexA and indexB are
\* hilbertIndex(rows, cell.baseX, cell.baseY) of its two cells; index holds that
\* value for every position of the array.  Array.prototype.sort is stable: the
\* element at position j comes before the one at position k when it compares
\* less, or compares equal and stands before it.  (Concatenating <<>> changes no
\* value; it has TLC compute each sequence once.)
sort(n, heap, grid) ==
    LET len == Len(grid)
        index == [k \in 1 .. len |->
                     hilbertIndex(n, heap[grid[k]].baseX, heap[grid[k]].baseY)] \o <<>>
        before(j, k) ==
            LET c == compareFn(index[j], index[k])
            IN  c < 0 \/ (c = 0 /\ j < k)
        rank == [k \in 1 .. len |->
                    Cardinality({j \in 1 .. len : before(j, k)}) + 1] \o <<>>
    IN  [i \in 1 .. len |-> grid[CHOOSE k \in 1 .. len : rank[k] = i]] \o <<>>

\* generateGrid()
generateGrid ==
    /\ LET rows == gridRows
           cols == gridCols
           st == gridLoop(rows, cols,
                          [cells |-> cells, cellCache |-> cellCache,
                           grid |-> <<>>, returned |-> returned])
           grid == IF sortCondition(rows, cols)
                   THEN sort(rows, st.cells, st.grid)
                   ELSE st.grid
       IN  /\ cells' = st.cells
           /\ cellCache' = st.cellCache
           /\ returned' = st.returned
           /\ gen' = [called |-> TRUE, rows |-> rows, cols |-> cols, grid |-> grid]
    /\ UNCHANGED <<gridRows, gridCols>>
    /\ UNCHANGED <<hilbertVars, rotationVars, transformVars, surfaceVars>>

\* stateStore.grid is a plain exported object: a host module assigns rows and cols
setGridConfig ==
    /\ \E rows \in RegridSides, cols \in RegridSides :
         /\ gridRows' = rows
         /\ gridCols' = cols
    /\ UNCHANGED <<cells, cellCache, gen, returned>>
    /\ UNCHANGED <<hilbertVars, rotationVars, transformVars, surfaceVars>>

\* A call getGridCell(x, y) from outside the generator
GetGridCell ==
    /\ \E p \in ProbeCoords :
         LET r == getGridCell(cells, cellCache, p[1], p[2])
         IN  /\ cells' = r.cells
             /\ cellCache' = r.cellCache
             /\ returned' = returned \cup {<<p[1], p[2], r.cell>>}
    /\ UNCHANGED <<gridRows, gridCols, gen>>
    /\ UNCHANGED <<hilbertVars, rotationVars, transformVars, surfaceVars>>

-----------------------------------------------------------------------------
(* The store's pipeline fields and the arguments of the pipeline calls *)

\* The pipeline fields of stateStore.transform as src/state.js constructs them
DefaultTransform ==
    [chladniAmplitude |-> Num(1),
     chladniFrequencyX |-> Rat(1, 2), chladniFrequencyY |-> Rat(1, 2),
     useClassicalMobius |-> TRUE,
     a_real |-> Num(1), a_imag |-> Num(0),
     b_real |-> Num(0), b_imag |-> Num(0),
     c_real |-> Num(0), c_imag |-> Num(0),
     d_real |-> Num(1), d_imag |-> Num(0),
     mobiusAnimationSpeed |-> Rat(1, 10),
     noiseScale |-> Rat(1, 2)]

\* The values the controls of the panel give the fields of stateStore.transform
ControlValues ==
    [useClassicalMobius |-> BOOLEAN,
     a_real |-> {Num(1), Num(2)},
     mobiusAnimationSpeed |-> {Num(0), Rat(1, 10)},
     noiseScale |-> {Num(0), Rat(1, 2)}]

\* The values updateTime gives stateStore.time, in frame steps
StoreTimes == {0, 100}

\* The seeds the noise functions may have been created from
NoiseSeeds == {0, 1}

\* transformPosition is called with the base coordinates of an 8 x 8 grid
BaseCoords == 0 .. 7

\* applyClassicalMobius is called with these points, times and coefficients:
\* the identity (animated or not), maps with c = 1 and d = 0, whose pole is the
\* origin, and a map with c = 1 and d = -2, whose pole is z = 2
MobiusPoints ==
    {<<Num(2), Rat(-7, 2)>>, <<Num(0), Num(0)>>, <<Num(1), Num(1)>>,
     <<Rat(401, 200), Num(0)>>, <<Rat(201, 100), Num(0)>>}

MobiusTimes == {Num(0), Num(1), Num(5)}

IdentityCoefficients ==
    [a_real |-> Num(1), a_imag |-> Num(0), b_real |-> Num(0), b_imag |-> Num(0),
     c_real |-> Num(0), c_imag |-> Num(0), d_real |-> Num(1), d_imag |-> Num(0),
     animationSpeed |-> Rat(1, 10)]

MobiusCoefficients ==
    {IdentityCoefficients,
     [IdentityCoefficients EXCEPT !.animationSpeed = Num(0)],
     [IdentityCoefficients EXCEPT !.c_real = Num(1), !.d_real = Num(0)],
     [IdentityCoefficients EXCEPT !.c_real = Num(1), !.d_real = Num(0),
                                  !.b_real = Num(3), !.b_imag = Num(4)],
     [IdentityCoefficients EXCEPT !.a_real = Num(0), !.c_real = Num(1),
                                  !.d_real = Num(0), !.b_real = Rat(1, 20000)],
     [IdentityCoefficients EXCEPT !.a_real = Num(0), !.c_real = Num(1),
                                  !.d_real = Num(0), !.b_real = Rat(1, 5000)],
     [IdentityCoefficients EXCEPT !.c_real = Num(1), !.d_real = Num(-2),
                                  !.animationSpeed = Num(0)]}

\* The vertex program runs on the vertices (x, y, 0) of these coordinates, on a
\* material created with these parameters and updated to these clock values
VertexCoords == {0, 1, 3}

ShaderParameters ==
    {[chladniAmplitude |-> Num(1),
      chladniFrequencyX |-> Rat(1, 2), chladniFrequencyY |-> Rat(1, 2),
      noiseScale |-> noiseScale, useClassicalMobius |-> useClassicalMobius,
      a |-> <<a_real, Num(0)>>] :
        noiseScale \in {Num(0), Rat(1, 2)}, useClassicalMobius \in BOOLEAN,
        a_real \in {Num(1), Num(2)}}

ShaderTimes == {0, 100}

\* createChladniMatrix is called with these arguments
ChladniCoords == {0, 1, 3}

ChladniTimes == {Num(0), Num(1)}

ChladniAmplitudes == {Num(0), Num(1), Num(2)}

ChladniFrequencies == {Rat(1, 2)}

ChladniNoiseScales == {Num(0), Rat(1, 2)}

-----------------------------------------------------------------------------
(* src/transforms/transformation.js.  A Matrix4 that is a translation is    *)
(* modelled by its translation vector <<x, y, z>>: the product of two       *)
(* translations adds the vectors and the position of the product is the     *)
(* sum.  A call either returns a value, [raised |-> FALSE, value |-> v],    *)
(* or throws, [raised |-> TRUE, error |-> e].                               *)

\* createNoise3D(): the noise function is fixed when the module loads, from a
\* random seed; whatever the seed, it is a function of the sample point with
\* values between -1 and 1
noise3D(seed, x, y, z) ==
    LET h == (seed + Floor(RatMul(x, Num(10))) + 3 * Floor(RatMul(y, Num(10)))
                   + 7 * Floor(RatMul(z, Num(10)))) % 5
    IN  Rat(h - 2, 4)

\* createNoise2D(): as noise3D, another function
noise2D(seed, x, y) ==
    LET h == (seed + 2 * Floor(RatMul(x, Num(10))) + 5 * Floor(RatMul(y, Num(10)))) % 5
    IN  Rat(h - 2, 4)

\* new THREE.Matrix4().makeTranslation(x, y, z)
makeTranslation(x, y, z) == <<x, y, z>>

\* a.multiply(b) for two translations
multiply(a, b) == <<RatAdd(a[1], b[1]), RatAdd(a[2], b[2]), RatAdd(a[3], b[3])>>

\* new THREE.Matrix4(): the identity
Identity4 == makeTranslation(Num(0), Num(0), Num(0))

Returned(v) == [raised |-> FALSE, value |-> v]

Thrown(e) == [raised |-> TRUE, error |-> e]

\* Faulty variant: the amplitude does not scale the wave term
chladniZUnscaled(seed, x, y, t, amplitude, freqX, freqY, noiseScale) ==
    LET baseZ == RatMul(Sin(RatAdd(RatMul(freqX, x), t)),
                        Sin(RatAdd(RatMul(freqY, y), t)))
        noise == noise3D(seed, RatMul(x, Rat(1, 10)), RatMul(y, Rat(1, 10)),
                         RatMul(t, Rat(1, 20)))
    IN  RatAdd(baseZ, RatMul(noise, noiseScale))

\* The Chladni wave term z of createChladniMatrix
chladniZ(seed, x, y, t, amplitude, freqX, freqY, noiseScale) ==
    LET baseZ == RatMul(Sin(RatAdd(RatMul(freqX, x), t)),
                        Sin(RatAdd(RatMul(freqY, y), t)))
        noise == noise3D(seed, RatMul(x, Rat(1, 10)), RatMul(y, Rat(1, 10)),
                         RatMul(t, Rat(1, 20)))
    IN  RatMul(amplitude, RatAdd(baseZ, RatMul(noise, noiseScale)))

\* createChladniMatrix(x, y, time, amplitude, freqX, freqY, noiseScale)
createChladniMatrix(seed, x, y, t, amplitude, freqX, freqY, noiseScale) ==
    makeTranslation(Num(0), Num(0),
                    chladniZ(seed, x, y, t, amplitude, freqX, freqY, noiseScale))

\* Faulty variant: the coefficient a is not animated
animatedAUnturned(a_real, a_imag, timePhase) == [real |-> a_real, imag |-> a_imag]

\* The coefficient a turned by timePhase = time * animationSpeed
animatedA(a_real, a_imag, timePhase) ==
    [real |-> RatSub(RatMul(a_real, Cos(timePhase)), RatMul(a_imag, Sin(timePhase))),
     imag |-> RatAdd(RatMul(a_real, Sin(timePhase)), RatMul(a_imag, Cos(timePhase)))]

\* if (denomMagnitudeSq < 0.0001)
nearSingular(denomMagnitudeSq) == RatLess(denomMagnitudeSq, Rat(1, 10000))

\* Faulty variant: the guarded branch returns the numerator as it is
regularizedUnscaled(numerator) == <<numerator.real, numerator.imag, Num(0)>>

\* The guarded branch: the numerator scaled to magnitude 1000, or the origin
regularized(numerator) ==
    The({ IF RatLess(numeratorMagnitude, Rat(1, 10000))
          THEN <<Num(0), Num(0), Num(0)>>
          ELSE <<RatMul(numerator.real, RatDiv(Num(1000), numeratorMagnitude)),
                 RatMul(numerator.imag, RatDiv(Num(1000), numeratorMagnitude)),
                 Num(0)>> :
          numeratorMagnitude \in
              {Sqrt(RatAdd(RatMul(numerator.real, numerator.real),
                           RatMul(numerator.imag, numerator.imag)))} })

\* applyClassicalMobius(x, y, time, params): the Vector3 it returns
applyClassicalMobius(x, y, t, params) ==
    LET z_real == x
        z_imag == y
        timePhase == RatMul(t, params.animationSpeed)
        b == [real |-> params.b_real, imag |-> params.b_imag]
        c == [real |-> params.c_real, imag |-> params.c_imag]
        d == [real |-> params.d_real, imag |-> params.d_imag]
    IN  The({
          The({
            The({ IF nearSingular(denomMagnitudeSq)
                  THEN regularized(numerator)
                  ELSE <<RatDiv(RatAdd(RatMul(numerator.real, denominator.real),
                                       RatMul(numerator.imag, denominator.imag)),
                                denomMagnitudeSq),
                         RatDiv(RatSub(RatMul(numerator.imag, denominator.real),
                                       RatMul(numerator.real, denominator.imag)),
                                denomMagnitudeSq),
                         Num(0)>> :
                  denomMagnitudeSq \in
                      {RatAdd(RatMul(denominator.real, denominator.real),
                              RatMul(denominator.imag, denominator.imag))} }) :
            numerator \in
                {[real |-> RatAdd(RatSub(RatMul(a.real, z_real), RatMul(a.imag, z_imag)),
                                  b.real),
                  imag |-> RatAdd(RatAdd(RatMul(a.real, z_imag), RatMul(a.imag, z_real)),
                                  b.imag)]},
            denominator \in
                {[real |-> RatAdd(RatSub(RatMul(c.real, z_real), RatMul(c.imag, z_imag)),
                                  d.real),
                  imag |-> RatAdd(RatAdd(RatMul(c.real, z_imag), RatMul(c.imag, z_real)),
                                  d.imag)]} }) :
          a \in {animatedA(params.a_real, params.a_imag, timePhase)} })

\* Faulty variant: the translation is the transformed position itself
createClassicalMobiusMatrixAbsolute(x, y, t, params) ==
    The({ makeTranslation(transformedPos[1], transformedPos[2], transformedPos[3]) :
          transformedPos \in {applyClassicalMobius(x, y, t, params)} })

\* createClassicalMobiusMatrix(x, y, time, params)
createClassicalMobiusMatrix(x, y, t, params) ==
    The({ makeTranslation(RatSub(transformedPos[1], x), RatSub(transformedPos[2], y),
                          transformedPos[3]) :
          transformedPos \in {applyClassicalMobius(x, y, t, params)} })

\* computeTwistAngle(x, y, z, time, params), and the same lines of
\* createEnhancedMobiusMatrix
computeTwistAngle(seed, x, y, z, t, params) ==
    LET distanceFromOrigin == Sqrt(RatAdd(RatMul(x, x), RatMul(y, y)))
        noiseFactor == RatMul(noise2D(seed, RatMul(x, Rat(1, 5)), RatMul(y, Rat(1, 5))),
                              params.noiseScale)
        twist1 == RatMul(params.factor, distanceFromOrigin)
        twist2 == RatMul(twist1, RatAdd(Num(1),
                                        RatMul(Rat(1, 2), Sin(RatMul(z, Rat(1, 2))))))
    IN  RatAdd(twist2, RatMul(RatMul(t, Rat(1, 10)), RatAdd(Num(1), noiseFactor)))

\* createEnhancedMobiusMatrix(x, y, z, time, params): twistAngle is computed, then
\* makeRotationZ(adjustedTwistAngle) reads a variable no statement declares
createEnhancedMobiusMatrix(seed, x, y, z, t, params) ==
    LET twistAngle == computeTwistAngle(seed, x, y, z, t, params)
    IN  Thrown("ReferenceError: adjustedTwistAngle is not defined")

\* createNoiseDisplacementMatrix(x, y, time, scale)
createNoiseDisplacementMatrix(seed, x, y, t, scale) ==
    LET sx == RatMul(x, Rat(1, 5))
        sy == RatMul(y, Rat(1, 5))
        displacementX == RatMul(noise3D(seed, sx, sy, RatMul(t, Rat(1, 10))), scale)
        displacementY ==
            RatMul(noise3D(seed, sx, sy, RatAdd(RatMul(t, Rat(3, 20)), Num(100))), scale)
        displacementZ ==
            RatMul(RatMul(noise3D(seed, sx, sy, RatAdd(RatMul(t, Rat(1, 20)), Num(200))),
                          scale),
                   Rat(1, 2))
    IN  makeTranslation(displacementX, displacementY, displacementZ)

\* createMobiusMatrix(x, y, z, time, params)
createMobiusMatrix(seed, x, y, z, t, params) ==
    IF params.useClassicalMobius
    THEN Returned(createClassicalMobiusMatrix(x, y, t, params))
    ELSE createEnhancedMobiusMatrix(seed, x, y, z, t, params)

\* createCombinedMatrix(baseX, baseY, time, params).  Beside the matrix the value
\* names its parts: waveAt, the point createChladniMatrix is given, wave, the z
\* of chladniMatrix, carried, the z of
\* mobiusMatrix * noiseMatrix * positionMatrix, and displaced, the translation
\* of noiseMatrix.
createCombinedMatrix(seed, baseX, baseY, t, params) ==
    LET positionMatrix == makeTranslation(baseX, baseY, Num(0))
    IN  The({
          The({
            The({ IF mobiusMatrix.raised THEN mobiusMatrix
                  ELSE The({ Returned([matrix  |-> multiply(chladniMatrix, stage2),
                                       waveAt  |-> <<baseX, baseY>>,
                                       wave    |-> chladniMatrix[3],
                                       carried |-> stage2[3],
                                       displaced |-> noiseMatrix]) :
                             chladniMatrix \in
                                 {createChladniMatrix(seed, baseX, baseY, t,
                                                      params.chladniAmplitude,
                                                      params.chladniFrequencyX,
                                                      params.chladniFrequencyY,
                                                      params.noiseScale)},
                             stage2 \in
                                 {multiply(mobiusMatrix.value,
                                           multiply(noiseMatrix, positionMatrix))} }) :
                  mobiusMatrix \in
                      {createMobiusMatrix(seed, tempVector[1], tempVector[2],
                                          tempVector[3], t,
                                          [useClassicalMobius |-> params.useClassicalMobius,
                                           factor |-> params.mobiusFactor,
                                           noiseScale |-> params.noiseScale,
                                           a_real |-> params.a_real,
                                           a_imag |-> params.a_imag,
                                           b_real |-> params.b_real,
                                           b_imag |-> params.b_imag,
                                           c_real |-> params.c_real,
                                           c_imag |-> params.c_imag,
                                           d_real |-> params.d_real,
                                           d_imag |-> params.d_imag,
                                           animationSpeed |-> params.mobiusAnimationSpeed])} }) :
            tempVector \in {multiply(noiseMatrix, positionMatrix)} }) :
          noiseMatrix \in
              {createNoiseDisplacementMatrix(seed, baseX, baseY, t,
                                             RatMul(params.noiseScale, Rat(1, 2)))} })

\* transformPosition(x, y): the position it returns, with the parts
\* createCombinedMatrix names
transformPosition(seed, store, x, y) ==
    The({ IF matrix.raised THEN matrix
          ELSE Returned([x |-> matrix.value.matrix[1],
                         y |-> matrix.value.matrix[2],
                         z |-> matrix.value.matrix[3],
                         waveAt |-> matrix.value.waveAt,
                         wave |-> matrix.value.wave,
                         carried |-> matrix.value.carried,
                         displaced |-> matrix.value.displaced]) :
          matrix \in {createCombinedMatrix(seed, x, y, store.time, store.transform)} })

-----------------------------------------------------------------------------
(* src/materials/clothMaterial.js: the uniforms of the deformation          *)
(* pipeline and the methods that write them                                 *)

\* The value undefined, where a number is expected
Undefined == <<0, 0>>

\* A property read obj.field
Get(obj, field) == IF field \in DOMAIN obj THEN obj[field] ELSE Undefined

\* The Mobius-Chladni entries of defaults
defaults ==
    [chladniAmplitude |-> Rat(1, 2),
     chladniFrequencyX |-> Num(4), chladniFrequencyY |-> Num(4),
     useClassicalMobius |-> TRUE,
     mobiusFactor |-> Rat(3, 10),
     noiseScale |-> Rat(1, 5),
     animationSpeed |-> Rat(1, 10),
     a |-> <<Num(1), Num(0)>>, b |-> <<Num(0), Num(0)>>,
     c |-> <<Num(0), Num(0)>>, d |-> <<Num(1), Num(0)>>]

\* The uniforms createCombinedCellMobiusMaterial(parameters) creates.  A key of
\* parameters whose value is undefined still overrides the default in
\* { ...defaults, ...parameters }.
createUniforms(parameters) ==
    LET params == parameters @@ defaults
    IN  [uTime              |-> 0,
         uChladniAmplitude  |-> params.chladniAmplitude,
         uChladniFrequencyX |-> params.chladniFrequencyX,
         uChladniFrequencyY |-> params.chladniFrequencyY,
         uUseClassicalMobius |-> params.useClassicalMobius,
         uMobiusFactor      |-> params.mobiusFactor,
         uNoiseScale        |-> params.noiseScale,
         uAnimationSpeed    |-> params.animationSpeed,
         uA                 |-> params.a,
         uB                 |-> params.b,
         uC                 |-> params.c,
         uD                 |-> params.d]

\* update(deltaTime): the material's own clock, in frame steps, is advanced and
\* copied to uTime
update(u, deltaTime) == [u EXCEPT !.uTime = u.uTime + deltaTime]

\* One assignment of updateMobiusChladniParameters: the uniform is written if
\* the parameter is there
Assign(current, params, field) ==
    IF field \in DOMAIN params /\ params[field] # Undefined
    THEN params[field] ELSE current

\* updateMobiusChladniParameters(params)
updateMobiusChladniParameters(u, params) ==
    [u EXCEPT !.uChladniAmplitude  = Assign(@, params, "chladniAmplitude"),
              !.uChladniFrequencyX = Assign(@, params, "chladniFrequencyX"),
              !.uChladniFrequencyY = Assign(@, params, "chladniFrequencyY"),
              !.uUseClassicalMobius =
                  IF "useClassicalMobius" \in DOMAIN params
                  THEN params.useClassicalMobius ELSE @,
              !.uMobiusFactor      = Assign(@, params, "mobiusFactor"),
              !.uNoiseScale        = Assign(@, params, "noiseScale"),
              !.uAnimationSpeed    = Assign(@, params, "animationSpeed"),
              !.uA = IF "a" \in DOMAIN params THEN params.a ELSE @,
              !.uB = IF "b" \in DOMAIN params THEN params.b ELSE @,
              !.uC = IF "c" \in DOMAIN params THEN params.c ELSE @,
              !.uD = IF "d" \in DOMAIN params THEN params.d ELSE @]

-----------------------------------------------------------------------------
(* src/materials/clothMaterial.js: the vertex program.  A vec2 or vec3 is a  *)
(* tuple of numbers; u is the record of uniform values the program reads,    *)
(* its clock uTime in frame steps.                                           *)

\* snoise(vec3 v): a fixed function of the sample point with values between
\* -1 and 1
snoise3(x, y, z) ==
    LET h == (Floor(RatMul(x, Num(10))) + 2 * Floor(RatMul(y, Num(10)))
                + 3 * Floor(RatMul(z, Num(10))) + 1) % 5
    IN  Rat(h - 2, 4)

\* snoise(vec2 v)
snoise2(x, y) == snoise3(x, y, Num(0))

\* A float of the vertex program, kept to the resolution of sin and cos
Float(a) == Rat(Milli(a), 1000)

\* complex_mul(a, b)
complex_mul(a, b) ==
    <<RatSub(RatMul(a[1], b[1]), RatMul(a[2], b[2])),
      RatAdd(RatMul(a[1], b[2]), RatMul(a[2], b[1]))>>

\* complex_div(a, b)
complex_div(a, b) ==
    The({ IF RatLess(denominator, Rat(1, 10000))
          THEN The({ IF RatLess(magnitude, Rat(1, 10000))
                     THEN <<Num(0), Num(0)>>
                     ELSE <<RatMul(a[1], RatDiv(Num(1000), magnitude)),
                            RatMul(a[2], RatDiv(Num(1000), magnitude))>> :
                     magnitude \in
                         {Sqrt(RatAdd(RatMul(a[1], a[1]), RatMul(a[2], a[2])))} })
          ELSE <<RatDiv(RatAdd(RatMul(a[1], b[1]), RatMul(a[2], b[2])), denominator),
                 RatDiv(RatSub(RatMul(a[2], b[1]), RatMul(a[1], b[2])), denominator)>> :
          denominator \in {RatAdd(RatMul(b[1], b[1]), RatMul(b[2], b[2]))} })

\* applyChladniTransform(pos, time)
applyChladniTransform(u, pos, t) ==
    LET baseZ == RatMul(Sin(RatAdd(RatMul(u.uChladniFrequencyX, pos[1]), t)),
                        Sin(RatAdd(RatMul(u.uChladniFrequencyY, pos[2]), t)))
        noise == snoise3(RatMul(pos[1], Rat(1, 10)), RatMul(pos[2], Rat(1, 10)),
                         RatMul(t, Rat(1, 20)))
        z == RatMul(u.uChladniAmplitude, RatAdd(baseZ, RatMul(noise, u.uNoiseScale)))
    IN  <<pos[1], pos[2], z>>

\* applyClassicalMobius(pos, time) of the vertex program
shaderClassicalMobius(u, pos, t) ==
    LET timePhase == RatMul(t, u.uAnimationSpeed)
        z == <<pos[1], pos[2]>>
    IN  The({
          The({ complex_div(numerator, denominator) :
                numerator \in
                    {<<RatAdd(complex_mul(a, z)[1], u.uB[1]),
                       RatAdd(complex_mul(a, z)[2], u.uB[2])>>},
                denominator \in
                    {<<RatAdd(complex_mul(u.uC, z)[1], u.uD[1]),
                       RatAdd(complex_mul(u.uC, z)[2], u.uD[2])>>} }) :
          a \in {<<RatSub(RatMul(u.uA[1], Cos(timePhase)),
                          RatMul(u.uA[2], Sin(timePhase))),
                   RatAdd(RatMul(u.uA[1], Sin(timePhase)),
                          RatMul(u.uA[2], Cos(timePhase)))>>} })

\* rotZ * pos, rotY * pos and rotX * pos, for the cosine and sine the matrix is
\* built from: GLSL fills a mat3 column by column
rotZ(cosZ, sinZ, pos) ==
    <<Float(RatAdd(RatMul(cosZ, pos[1]), RatMul(sinZ, pos[2]))),
      Float(RatSub(RatMul(cosZ, pos[2]), RatMul(sinZ, pos[1]))),
      pos[3]>>

rotY(cosY, sinY, pos) ==
    <<Float(RatSub(RatMul(cosY, pos[1]), RatMul(sinY, pos[3]))),
      pos[2],
      Float(RatAdd(RatMul(sinY, pos[1]), RatMul(cosY, pos[3])))>>

rotX(cosX, sinX, pos) ==
    <<pos[1],
      Float(RatAdd(RatMul(cosX, pos[2]), RatMul(sinX, pos[3]))),
      Float(RatSub(RatMul(cosX, pos[3]), RatMul(sinX, pos[2])))>>

\* applyEnhancedMobius(pos, time)
applyEnhancedMobius(u, pos, t) ==
    The({
      The({
        The({ rotX(Cos(xAngle), Sin(xAngle), fromY) :
              fromY \in {rotY(Cos(secondaryAngle), Sin(secondaryAngle), fromZ) :
                           fromZ \in {rotZ(Cos(twistAngle), Sin(twistAngle), pos)}} }) :
        twistAngle \in
            {RatAdd(RatMul(RatMul(u.uMobiusFactor, distanceFromOrigin),
                           RatAdd(Num(1),
                                  RatMul(Rat(1, 2), Sin(RatMul(pos[3], Rat(1, 2)))))),
                    RatMul(RatMul(t, Rat(1, 10)), RatAdd(Num(1), noiseFactor)))},
        secondaryAngle \in
            {RatMul(RatMul(u.uMobiusFactor, Rat(1, 2)),
                    RatAdd(Sin(distanceFromOrigin),
                           RatMul(RatMul(snoise2(RatAdd(RatMul(pos[1], Rat(1, 10)),
                                                        RatMul(t, Rat(1, 20))),
                                                 RatMul(pos[2], Rat(1, 10))),
                                         u.uNoiseScale),
                                  Rat(1, 2))))},
        xAngle \in
            {RatMul(RatMul(RatMul(u.uMobiusFactor, Rat(3, 10)),
                           snoise2(RatMul(pos[1], Rat(3, 20)), RatMul(t, Rat(1, 20)))),
                    u.uNoiseScale)} }) :
      distanceFromOrigin \in
          {Sqrt(RatAdd(RatMul(pos[1], pos[1]), RatMul(pos[2], pos[2])))},
      noiseFactor \in
          {RatMul(snoise2(RatMul(pos[1], Rat(1, 5)), RatMul(pos[2], Rat(1, 5))),
                  u.uNoiseScale)} })

\* applyNoiseDisplacement(pos, time)
applyNoiseDisplacement(u, pos, t) ==
    LET sx == RatMul(pos[1], Rat(1, 5))
        sy == RatMul(pos[2], Rat(1, 5))
        displacementX == RatMul(snoise3(sx, sy, RatMul(t, Rat(1, 10))), u.uNoiseScale)
        displacementY == RatMul(snoise3(sx, sy, RatAdd(RatMul(t, Rat(3, 20)), Num(100))),
                                u.uNoiseScale)
        displacementZ == RatMul(RatMul(snoise3(sx, sy, RatAdd(RatMul(t, Rat(1, 20)),
                                                               Num(200))),
                                       u.uNoiseScale),
                                Rat(1, 2))
    IN  <<RatAdd(pos[1], displacementX), RatAdd(pos[2], displacementY),
          RatAdd(pos[3], displacementZ)>>

\* main(): vPosition, with the parts main names on its way: waveAt, the point
\* applyChladniTransform is given, wave, the z it returns, carried, pos.z
\* before the wave is added, and displaced, what applyNoiseDisplacement added to
\* the position
main(u, position) ==
    LET t == Rat(u.uTime, 100)
    IN  The({
          The({
            The({ [x |-> stage2[1], y |-> stage2[2],
                   z |-> RatAdd(stage2[3], chladniPos[3]),
                   waveAt |-> <<stage2[1], stage2[2]>>,
                   wave |-> chladniPos[3],
                   carried |-> stage2[3],
                   displaced |-> <<RatSub(stage1[1], position[1]),
                                   RatSub(stage1[2], position[2]),
                                   RatSub(stage1[3], position[3])>>] :
                  chladniPos \in
                      {applyChladniTransform(u, <<stage2[1], stage2[2]>>, t)} }) :
            stage2 \in
                {IF u.uUseClassicalMobius
                 THEN The({ <<mobiusResult[1], mobiusResult[2], stage1[3]>> :
                            mobiusResult \in
                                {shaderClassicalMobius(u, <<stage1[1], stage1[2]>>, t)} })
                 ELSE applyEnhancedMobius(u, stage1, t)} }) :
          stage1 \in {applyNoiseDisplacement(u, position, t)} })

-----------------------------------------------------------------------------
(* src/renderer.js: the material parameters of initRenderer and of a frame  *)

\* materialParams of initRenderer(state), the Mobius-Chladni part
materialParams(tr, factor) ==
    [chladniAmplitude  |-> tr.chladniAmplitude,
     chladniFrequencyX |-> tr.chladniFrequencyX,
     chladniFrequencyY |-> tr.chladniFrequencyY,
     useClassicalMobius |-> tr.useClassicalMobius,
     mobiusFactor      |-> factor,
     noiseScale        |-> tr.noiseScale,
     animationSpeed    |-> Get(tr, "animationSpeed"),
     a |-> <<tr.a_real, tr.a_imag>>,
     b |-> <<tr.b_real, tr.b_imag>>,
     c |-> <<tr.c_real, tr.c_imag>>,
     d |-> <<tr.d_real, tr.d_imag>>]

\* The coefficient a of mobiusParams in classical mode
frameA(tr, t) ==
    IF RatLess(Num(0), tr.mobiusAnimationSpeed)
    THEN <<Cos(RatMul(t, tr.mobiusAnimationSpeed)), Sin(RatMul(t, tr.mobiusAnimationSpeed))>>
    ELSE <<tr.a_real, tr.a_imag>>

\* mobiusParams of animate(), at store time t with the factor just signed
mobiusParams(tr, factor, t) ==
    LET base == [chladniAmplitude  |-> tr.chladniAmplitude,
                 chladniFrequencyX |-> tr.chladniFrequencyX,
                 chladniFrequencyY |-> tr.chladniFrequencyY,
                 useClassicalMobius |-> tr.useClassicalMobius,
                 mobiusFactor      |-> factor,
                 noiseScale        |-> tr.noiseScale,
                 animationSpeed    |-> Get(tr, "animationSpeed")]
    IN  IF tr.useClassicalMobius
        THEN base @@ [a |-> frameA(tr, t),
                      b |-> <<tr.b_real, tr.b_imag>>,
                      c |-> <<tr.c_real, tr.c_imag>>,
                      d |-> <<tr.d_real, tr.d_imag>>]
        ELSE base

-----------------------------------------------------------------------------
(* src/materials/clothMaterial.js: the grid and cell-transform uniforms of   *)
(* the material, the methods that write them, and what the store and the     *)
(* animation loop hand to them                                               *)

\* The material holds at most this many cell transforms:
\* if (count >= 10) return false, Array(10), new Float32Array(10)
TransformCapacity == 10

\* ['gradient', 'sharp', 'blended', 'heaviside']
PropagationNames == <<"gradient", "sharp", "blended", "heaviside">>

\* ['gradient', 'sharp', 'blended', 'heaviside'].indexOf(type)
indexOf(type) ==
    IF \E i \in 1 .. Len(PropagationNames) : PropagationNames[i] = type
    THEN (CHOOSE i \in 1 .. Len(PropagationNames) : PropagationNames[i] = type) - 1
    ELSE -1

\* stateStore.grid as the store constructs it, beside rows and cols: it has a
\* resolution and a density but no size
DefaultGrid ==
    [size |-> Undefined, resolution |-> Num(64), density |-> Num(1),
     needsUpdate |-> FALSE]

\* The values a host gives the fields of stateStore.grid when it changes the
\* grid (it sets needsUpdate with them)
GridUpdates ==
    {[size |-> Num(2), resolution |-> Num(32), density |-> Num(2)],
     [size |-> Undefined, resolution |-> Num(16), density |-> Num(1)]}

\* The entries a host puts into stateStore.interactions.activeCellTransforms and
\* the arguments of direct calls of applyCellTransform; "wave" is a name the
\* material does not know
CellTransforms ==
    {[center |-> <<Num(1), Num(1)>>, radius |-> Rat(1, 2), propagationType |-> "sharp"],
     [center |-> <<Num(2), Num(3)>>, radius |-> Num(1), propagationType |-> "wave"]}

\* The lists a host assigns to stateStore.interactions.activeCellTransforms:
\* empty, short ones, and one with more entries than the material holds
ActiveLists ==
    {<<>>,
     <<[center |-> <<Num(1), Num(1)>>, radius |-> Rat(1, 2), propagationType |-> "sharp"]>>,
     <<[center |-> <<Num(2), Num(3)>>, radius |-> Num(1), propagationType |-> "wave"],
       [center |-> <<Num(1), Num(1)>>, radius |-> Rat(1, 2), propagationType |-> "sharp"]>>,
     [i \in 1 .. (TransformCapacity + 1) |->
         [center |-> <<Num(1), Num(1)>>, radius |-> Rat(1, 2),
          propagationType |-> "sharp"]] \o <<>>}

\* The grid entries of defaults
cellDefaults ==
    [gridSize |-> Num(10), gridResolution |-> Num(8), gridDensity |-> Num(1)]

\* materialParams of initRenderer(state), the cell part: gridSize, gridResolution
\* and gridDensity from state.grid, and propagationType, which initRenderer
\* passes as a number (0 for the store's 'gradient')
cellMaterialParams(g) ==
    [propagationType |-> 0,
     gridSize |-> g.size, gridResolution |-> g.resolution, gridDensity |-> g.density]

\* The grid and cell-transform uniforms createCombinedCellMobiusMaterial(parameters)
\* creates.  uPropagationType is indexOf(params.propagationType): the index of
\* the default 'gradient' when parameters has no propagationType, and -1 when it
\* has the number initRenderer passes, which is none of the names.
createCellUniforms(parameters) ==
    LET params == parameters @@ cellDefaults
    IN  [uPropagationType  |-> IF "propagationType" \in DOMAIN parameters
                               THEN -1 ELSE indexOf("gradient"),
         uTransformCount   |-> 0,
         uGridSize         |-> params.gridSize,
         uGridResolution   |-> params.gridResolution,
         uGridDensity      |-> params.gridDensity,
         uTransformCenters |-> [i \in 1 .. TransformCapacity |-> <<Num(0), Num(0)>>] \o <<>>,
         uTransformRadii   |-> [i \in 1 .. TransformCapacity |-> Num(0)] \o <<>>]

\* updateCellParameters(size, resolution, density): an argument that is undefined
\* leaves its uniform as it is
updateCellParameters(u, size, resolution, density) ==
    [u EXCEPT !.uGridSize       = IF size # Undefined THEN size ELSE @,
              !.uGridResolution = IF resolution # Undefined THEN resolution ELSE @,
              !.uGridDensity    = IF density # Undefined THEN density ELSE @]

\* Faulty variant: > instead of >=
atCapacityOffByOne(count) == count > TransformCapacity

\* if (count >= 10) return false
atCapacity(count) == count >= TransformCapacity

\* applyCellTransform(center, radius, type): the uniforms after the call and the
\* value returned.  Slot [count] of the program's arrays is position count + 1
\* of the sequences here.
applyCellTransform(u, center, radius, type) ==
    LET count == u.uTransformCount
    IN  IF atCapacity(count)
        THEN [uniforms |-> u, result |-> FALSE]
        ELSE [uniforms |->
                  [u EXCEPT !.uTransformCenters =
                                [i \in 1 .. Len(@) |-> IF i = count + 1 THEN center ELSE @[i]]
                                    \o <<>>,
                            !.uTransformRadii =
                                [i \in 1 .. Len(@) |-> IF i = count + 1 THEN radius ELSE @[i]]
                                    \o <<>>,
                            !.uTransformCount = count + 1,
                            !.uPropagationType =
                                IF indexOf(type) >= 0 THEN indexOf(type) ELSE @],
              result |-> TRUE]

\* clearCellTransforms()
clearCellTransforms(u) == [u EXCEPT !.uTransformCount = 0]

\* appearanceParams of animate(): an object with the fields baseColor,
\* activeColor, snapIntensity, heavisideThreshold, minSphericity, maxSphericity
\* and propagationType, here the tuple of their values in that order, from the
\* store's appearance (both colors 0xffffff, the other fields absent, hence the
\* values after ||) and its defaultPropagationType 'gradient'
appearanceParams ==
    <<16777215, 16777215, Num(0), Rat(1, 2), Num(0), Num(1), 0>>

\* state.interactions.activeCellTransforms.forEach(transform =>
\*     clothMaterial.applyCellTransform(center, transform.radius,
\*                                      transform.propagationType))
RECURSIVE forEachApply(_, _)
forEachApply(u, list) ==
    IF list = <<>> THEN u
    ELSE forEachApply(applyCellTransform(u, Head(list).center, Head(list).radius,
                                         Head(list).propagationType).uniforms,
                      Tail(list))

\* The cell part of a frame of animate(): updateCellParameters(appearanceParams),
\* the grid block under state.grid.needsUpdate, and the cell transforms block
frameCellUniforms(u, g, list) ==
    The({ IF Len(list) > 0 THEN forEachApply(clearCellTransforms(grown), list)
          ELSE grown :
          grown \in {IF g.needsUpdate
                     THEN updateCellParameters(
                              updateCellParameters(u, appearanceParams, Undefined,
                                                   Undefined),
                              g.size, g.resolution, g.density)
                     ELSE updateCellParameters(u, appearanceParams, Undefined,
                                               Undefined)} })

-----------------------------------------------------------------------------
(* src/state.js and the animation loop of src/renderer.js *)

\* Faulty variant: the sign is kept
AbsSigned(v) == v

\* Math.abs
Abs(v) == IF v < 0 THEN -v ELSE v

\* Math.sin(rotationTimer) > 0, for a timer of t frame steps, that is t / 100:
\* t / 100 lies strictly between two multiples 2 k pi and (2 k + 1) pi
\* (2 pi = 6.283185..., pi = 3.141592..., both times 1000000 here)
sinPositive(t) ==
    LET phase == (t * 10000) % 6283185
    IN  phase > 0 /\ phase < 3141593

\* Faulty variant: the modulo 7 is dropped
kaprekarNoModulo(timer, patternThreshold) ==
    LET kapValue == timer \div 10
    IN  IF kapValue < patternThreshold THEN -1 ELSE 1

\* case "kaprekar": kapValue = Math.floor(rotationTimer * 10) % 7
kaprekar(timer, patternThreshold) ==
    LET kapValue == (timer \div 10) % 7
    IN  IF kapValue < patternThreshold THEN -1 ELSE 1

\* Faulty variant: the step goes to -1 and stays there
heavisideStuck(direction) == -1

\* case "heaviside" (and default): rotationDirection * -1
heaviside(direction) == direction * (-1)

\* case "sine"
sine(timer) == IF sinPositive(timer) THEN 1 ELSE -1

\* Faulty variant: the coin is used as a number, 1 or 0
randomZeroOne(coin) == IF coin THEN 1 ELSE 0

\* case "random": coin is Math.random() > 0.5
random(coin) == IF coin THEN 1 ELSE -1

\* Faulty variant: a pattern the switch does not know keeps the direction
newDirectionDefaultKeeps(modulation, direction, timer, coin) ==
    CASE modulation.pattern = "kaprekar" -> kaprekar(timer, modulation.patternThreshold)
      [] modulation.pattern = "heaviside" -> heaviside(direction)
      [] modulation.pattern = "sine" -> sine(timer)
      [] modulation.pattern = "random" -> random(coin)
      [] OTHER -> direction

\* The switch over rotationModulation.pattern
newDirection(modulation, direction, timer, coin) ==
    CASE modulation.pattern = "kaprekar" -> kaprekar(timer, modulation.patternThreshold)
      [] modulation.pattern = "heaviside" -> heaviside(direction)
      [] modulation.pattern = "sine" -> sine(timer)
      [] modulation.pattern = "random" -> random(coin)
      [] OTHER -> heaviside(direction)

\* Faulty variant: the enabled flag is not read
modulationOffNever(modulation) == FALSE

\* if (!rotationModulation.enabled) return ...
modulationOff(modulation) == ~modulation.enabled

\* Faulty variant: >= instead of >
intervalElapsedOrEqual(modulation, timer, last) == timer - last >= modulation.interval

\* if (rotationTimer - lastRotationTime > rotationModulation.interval)
intervalElapsed(modulation, timer, last) == timer - last > modulation.interval

\* Faulty variant: lastRotationTime is not advanced
switchTimeStale(timer, last) == last

\* The value the trigger stores in stateStore.runtime.lastRotationTime
switchTime(timer, last) == timer

\* updateRotationDirection(currentTime) with the timer at `timer`: the runtime
\* fields after the call; its return value is their rotationDirection.  The
\* field triggered tells whether the call entered the transition branch.
updateRotationDirection(modulation, direction, timer, last, coin) ==
    IF modulationOff(modulation)
    THEN [rotationDirection |-> direction, lastRotationTime |-> last,
          triggered |-> FALSE]
    ELSE IF intervalElapsed(modulation, timer, last)
         THEN [rotationDirection |-> newDirection(modulation, direction, timer, coin),
               lastRotationTime  |-> switchTime(timer, last),
               triggered         |-> TRUE]
         ELSE [rotationDirection |-> direction, lastRotationTime |-> last,
               triggered |-> FALSE]

\* updateTransformParams(newParams), with a rotationModulation and a mobiusFactor
\* in newParams, before the animation loop starts
updateTransformParams ==
    /\ time = 0
    /\ \E m \in Modulations, f \in MobiusFactors :
         /\ rotationModulation' = m
         /\ mobiusFactor' = f
    /\ UNCHANGED <<time, rotationTimer, lastRotationTime, rotationDirection,
                   lastFlip, switches>>
    /\ UNCHANGED <<hilbertVars, gridVars, transformVars, surfaceVars>>

\* The onChange handler of the "Enable Rotation Mod" checkbox, while the loop runs:
\* updateTransformParams({rotationModulation: {...rotationModulation, enabled: value}})
onChangeEnabled ==
    /\ time \in UiFrames
    /\ \E value \in BOOLEAN :
         rotationModulation' = [rotationModulation EXCEPT !.enabled = value]
    /\ UNCHANGED <<time, rotationTimer, lastRotationTime, rotationDirection,
                   mobiusFactor, lastFlip, switches>>
    /\ UNCHANGED <<hilbertVars, gridVars, transformVars, surfaceVars>>

\* One frame of animate(): both timers advance, updateRotationDirection runs and
\* its return value gives mobiusFactor its sign; the material's uniforms are
\* written and its clock advanced; the grid block resets needsUpdate
animate ==
    /\ time < MaxFrames
    /\ time' = time + 1
    /\ rotationTimer' = rotationTimer + 1
    /\ \E coin \in BOOLEAN :
         LET r == updateRotationDirection(rotationModulation, rotationDirection,
                                          rotationTimer', lastRotationTime, coin)
         IN  /\ rotationDirection' = r.rotationDirection
             /\ lastRotationTime' = r.lastRotationTime
             /\ mobiusFactor' = IF mobiusFactor # 0
                                THEN Abs(mobiusFactor) * r.rotationDirection
                                ELSE mobiusFactor
             /\ lastFlip' = IF r.rotationDirection # rotationDirection
                            THEN rotationTimer' ELSE lastFlip
             /\ switches' = IF r.triggered THEN switches + 1 ELSE switches
    /\ \E params \in {mobiusParams(transform, Rat(mobiusFactor', 10), Rat(time', 100))} :
         uniforms' = update(updateMobiusChladniParameters(uniforms, params), 1)
    /\ UNCHANGED rotationModulation
    /\ cellUniforms' = frameCellUniforms(cellUniforms, storeGrid, activeCellTransforms)
    /\ storeGrid' = [storeGrid EXCEPT !.needsUpdate = FALSE]
    /\ UNCHANGED activeCellTransforms
    /\ UNCHANGED <<transform, probe, noiseSeed>>
    /\ UNCHANGED <<hilbertVars, gridVars>>

\* A call updateRotationDirection(currentTime) outside the animation loop
CallUpdateRotationDirection ==
    /\ \E coin \in BOOLEAN :
         LET r == updateRotationDirection(rotationModulation, rotationDirection,
                                          rotationTimer, lastRotationTime, coin)
         IN  /\ rotationDirection' = r.rotationDirection
             /\ lastRotationTime' = r.lastRotationTime
             /\ lastFlip' = IF r.rotationDirection # rotationDirection
                            THEN rotationTimer ELSE lastFlip
             /\ switches' = IF r.triggered THEN switches + 1 ELSE switches
    /\ UNCHANGED <<time, rotationTimer, rotationModulation, mobiusFactor>>
    /\ UNCHANGED <<hilbertVars, gridVars, transformVars, surfaceVars>>

\* The fields updateRuntimeState is called with
RuntimeParams ==
    {[rotationDirection |-> -1],
     [rotationTimer |-> 0, lastRotationTime |-> 0]}

\* updateRuntimeState(newParams): Object.assign(stateStore.runtime, newParams)
updateRuntimeState ==
    /\ \E newParams \in RuntimeParams :
         /\ rotationDirection' = IF "rotationDirection" \in DOMAIN newParams
                                 THEN newParams.rotationDirection
                                 ELSE rotationDirection
         /\ rotationTimer' = IF "rotationTimer" \in DOMAIN newParams
                             THEN newParams.rotationTimer
                             ELSE rotationTimer
         /\ lastRotationTime' = IF "lastRotationTime" \in DOMAIN newParams
                                THEN newParams.lastRotationTime
                                ELSE lastRotationTime
    /\ UNCHANGED <<time, rotationModulation, mobiusFactor, lastFlip, switches>>
    /\ UNCHANGED <<hilbertVars, gridVars, transformVars, surfaceVars>>

\* stateStore.grid is a plain exported object: a host changes the grid's size,
\* resolution and density and sets needsUpdate for the animation loop
onGridChange ==
    /\ \E g \in GridUpdates :
         storeGrid' = [size |-> g.size, resolution |-> g.resolution,
                       density |-> g.density, needsUpdate |-> TRUE]
    /\ UNCHANGED <<activeCellTransforms, cellUniforms>>
    /\ UNCHANGED <<hilbertVars, gridVars, rotationVars, transformVars>>

\* A host assigns stateStore.interactions.activeCellTransforms between frames
setActiveCellTransforms ==
    /\ \E list \in ActiveLists : activeCellTransforms' = list
    /\ UNCHANGED <<storeGrid, cellUniforms>>
    /\ UNCHANGED <<hilbertVars, gridVars, rotationVars, transformVars>>

\* A call clothMaterial.applyCellTransform(center, radius, type)
CallApplyCellTransform ==
    /\ \E t \in CellTransforms :
         \E r \in {applyCellTransform(cellUniforms, t.center, t.radius,
                                      t.propagationType)} :
            /\ cellUniforms' = r.uniforms
            /\ probe' = [fn |-> "applyCellTransform",
                         args |-> <<t.center, t.radius, t.propagationType>>,
                         out |-> Returned(r.result)]
    /\ UNCHANGED <<storeGrid, activeCellTransforms>>
    /\ UNCHANGED <<transform, uniforms, noiseSeed>>
    /\ UNCHANGED <<hilbertVars, gridVars, rotationVars>>

\* A call clothMaterial.clearCellTransforms()
CallClearCellTransforms ==
    /\ cellUniforms' = clearCellTransforms(cellUniforms)
    /\ probe' = [fn |-> "clearCellTransforms", args |-> <<>>, out |-> Returned(<<>>)]
    /\ UNCHANGED <<storeGrid, activeCellTransforms>>
    /\ UNCHANGED <<transform, uniforms, noiseSeed>>
    /\ UNCHANGED <<hilbertVars, gridVars, rotationVars>>

-----------------------------------------------------------------------------
(* The store's setters and calls of the pipeline functions *)

\* stateStore.transform, as transformPosition reads it
storeTransform == [mobiusFactor |-> Rat(mobiusFactor, 10)] @@ transform

\* No call of a pipeline function has been made since the store was last written
NoCall == [fn |-> "none", args |-> <<>>, out |-> Returned(<<>>)]

\* updateTime(newTime)
updateTime ==
    /\ \E newTime \in StoreTimes : time' = newTime
    /\ probe' = NoCall
    /\ UNCHANGED <<rotationTimer, lastRotationTime, rotationDirection,
                   rotationModulation, mobiusFactor, lastFlip, switches>>
    /\ UNCHANGED <<transform, uniforms, noiseSeed>>
    /\ UNCHANGED <<hilbertVars, gridVars, surfaceVars>>

\* The onChange handler of a control of the panel:
\* updateTransformParams({ field: value })
onChangeTransform ==
    /\ \E field \in DOMAIN ControlValues :
         \E value \in ControlValues[field] :
            transform' = [transform EXCEPT ![field] = value]
    /\ probe' = NoCall
    /\ UNCHANGED <<uniforms, noiseSeed>>
    /\ UNCHANGED <<hilbertVars, gridVars, rotationVars, surfaceVars>>

\* A call applyClassicalMobius(x, y, time, params)
CallApplyClassicalMobius ==
    /\ \E point \in MobiusPoints, t \in MobiusTimes, params \in MobiusCoefficients :
         probe' = [fn |-> "applyClassicalMobius",
                   args |-> <<point[1], point[2], t, params>>,
                   out |-> Returned(applyClassicalMobius(point[1], point[2], t, params))]
    /\ UNCHANGED <<transform, uniforms, noiseSeed>>
    /\ UNCHANGED <<hilbertVars, gridVars, rotationVars, surfaceVars>>

\* The vertex program's applyClassicalMobius(pos, time) on a material created with
\* the coefficients params and the clock at t
CallShaderClassicalMobius ==
    /\ \E point \in MobiusPoints, t \in MobiusTimes, params \in MobiusCoefficients :
         \E u \in {createUniforms([animationSpeed |-> params.animationSpeed,
                                    a |-> <<params.a_real, params.a_imag>>,
                                    b |-> <<params.b_real, params.b_imag>>,
                                    c |-> <<params.c_real, params.c_imag>>,
                                    d |-> <<params.d_real, params.d_imag>>])} :
            \E r \in {shaderClassicalMobius(u, point, t)} :
               probe' = [fn |-> "shaderClassicalMobius",
                         args |-> <<point[1], point[2], t, params>>,
                         out |-> Returned(<<r[1], r[2], Num(0)>>)]
    /\ UNCHANGED <<transform, uniforms, noiseSeed>>
    /\ UNCHANGED <<hilbertVars, gridVars, rotationVars, surfaceVars>>

\* The vertex program's main() on a vertex of the plane
CallVertexMain ==
    /\ \E x \in VertexCoords, y \in VertexCoords, parameters \in ShaderParameters,
          frames \in ShaderTimes :
         \E u \in {update(createUniforms(parameters), frames)} :
            probe' = [fn |-> "main",
                      args |-> <<Num(x), Num(y), u>>,
                      out |-> Returned(main(u, <<Num(x), Num(y), Num(0)>>))]
    /\ UNCHANGED <<transform, uniforms, noiseSeed>>
    /\ UNCHANGED <<hilbertVars, gridVars, rotationVars, surfaceVars>>

\* A call createChladniMatrix(x, y, time, amplitude, freqX, freqY, noiseScale)
CallCreateChladniMatrix ==
    /\ \E x \in ChladniCoords, y \in ChladniCoords, t \in ChladniTimes,
          amplitude \in ChladniAmplitudes, freq \in ChladniFrequencies,
          noiseScale \in ChladniNoiseScales :
         probe' = [fn |-> "createChladniMatrix",
                   args |-> <<Num(x), Num(y), t, amplitude, freq, freq, noiseScale>>,
                   out |-> Returned(createChladniMatrix(noiseSeed, Num(x), Num(y), t,
                                                        amplitude, freq, freq,
                                                        noiseScale))]
    /\ UNCHANGED <<transform, uniforms, noiseSeed>>
    /\ UNCHANGED <<hilbertVars, gridVars, rotationVars, surfaceVars>>

\* A call transformPosition(x, y)
CallTransformPosition ==
    /\ \E x \in BaseCoords, y \in BaseCoords :
         \E store \in {[transform |-> storeTransform, time |-> Rat(time, 100)]} :
            probe' = [fn |-> "transformPosition",
                      args |-> <<Num(x), Num(y)>>,
                      out |-> transformPosition(noiseSeed, store, Num(x), Num(y))]
    /\ UNCHANGED <<transform, uniforms, noiseSeed>>
    /\ UNCHANGED <<hilbertVars, gridVars, rotationVars, surfaceVars>>

-----------------------------------------------------------------------------
(* Initial states and specifications *)

HilbertIdle ==
    /\ hPc = "idle"
    /\ hN = 0
    /\ hX = 0
    /\ hY = 0
    /\ hS = 0
    /\ hIndex = 0
    /\ hArgs = <<0, 0>>

\* No cell exists yet; the configuration (rows, cols) is the one the store holds
GridIdle(rows, cols) ==
    /\ gridRows = rows
    /\ gridCols = cols
    /\ cells = <<>>
    /\ cellCache = EmptyMap
    /\ gen = [called |-> FALSE, rows |-> 0, cols |-> 0, grid |-> <<>>]
    /\ returned = {}

\* The state store as src/state.js constructs it
StoreDefaults ==
    /\ time = 0
    /\ rotationTimer = 0
    /\ lastRotationTime = 0
    /\ rotationDirection = 1
    /\ rotationModulation = [enabled |-> TRUE, interval |-> 500,
                             pattern |-> "kaprekar", patternThreshold |-> 3]
    /\ mobiusFactor = 3
    /\ lastFlip = -1
    /\ switches = 0

\* The pipeline fields of the store, the material initRenderer creates from them,
\* no call made yet, and the noise functions created from the seed
PipelineIdle(seed) ==
    /\ transform = DefaultTransform
    /\ uniforms = createUniforms(materialParams(DefaultTransform, Rat(3, 10)))
    /\ probe = [fn |-> "none", args |-> <<>>, out |-> Returned(<<>>)]
    /\ noiseSeed = seed
    /\ storeGrid = DefaultGrid
    /\ activeCellTransforms = <<>>
    /\ cellUniforms = createCellUniforms(cellMaterialParams(DefaultGrid))

InitHilbert == HilbertIdle /\ GridIdle(0, 0) /\ StoreDefaults /\ PipelineIdle(0)

NextHilbert == hilbertEnter \/ hilbertIterate \/ hilbertReturn

SpecHilbert == InitHilbert /\ [][NextHilbert]_vars

\* The call runs on: JavaScript executes the loop's next step (one more
\* iteration, or the return) whenever there is one.  New calls are the
\* caller's choice and are not forced.
SpecHilbertFair ==
    SpecHilbert /\ WF_vars(hilbertIterate) /\ WF_vars(hilbertReturn)

\* The grid configuration is supplied from outside: any rows, cols of GridSides
InitGrid ==
    /\ HilbertIdle
    /\ \E rows \in GridSides, cols \in GridSides : GridIdle(rows, cols)
    /\ StoreDefaults
    /\ PipelineIdle(0)

NextGrid == generateGrid \/ GetGridCell

SpecGrid == InitGrid /\ [][NextGrid]_vars

\* The grid is generated, reconfigured and generated again
InitRegrid ==
    /\ HilbertIdle
    /\ \E rows \in RegridSides, cols \in RegridSides : GridIdle(rows, cols)
    /\ StoreDefaults
    /\ PipelineIdle(0)

NextRegrid == generateGrid \/ setGridConfig

SpecRegrid == InitRegrid /\ [][NextRegrid]_vars

InitRotation == HilbertIdle /\ GridIdle(0, 0) /\ StoreDefaults /\ PipelineIdle(0)

NextRotation ==
    \/ updateTransformParams
    \/ onChangeEnabled
    \/ animate
    \/ CallUpdateRotationDirection

SpecRotation == InitRotation /\ [][NextRotation]_vars

\* The stage functions of the pipeline are called with arguments of the caller's
InitCalls ==
    /\ HilbertIdle
    /\ GridIdle(0, 0)
    /\ StoreDefaults
    /\ \E seed \in NoiseSeeds : PipelineIdle(seed)

NextCalls ==
    \/ CallApplyClassicalMobius
    \/ CallShaderClassicalMobius
    \/ CallCreateChladniMatrix

SpecCalls == InitCalls /\ [][NextCalls]_vars

\* transformPosition is called on the store a host and the panel have set up
InitTransform ==
    /\ HilbertIdle
    /\ GridIdle(0, 0)
    /\ StoreDefaults
    /\ \E seed \in NoiseSeeds : PipelineIdle(seed)

NextTransform == updateTime \/ onChangeTransform \/ CallTransformPosition

SpecTransform == InitTransform /\ [][NextTransform]_vars

\* The vertex program runs on a material a host has created
InitShader == HilbertIdle /\ GridIdle(0, 0) /\ StoreDefaults /\ PipelineIdle(0)

NextShader == CallVertexMain

SpecShader == InitShader /\ [][NextShader]_vars

\* The frames shown in the runs that interleave the animation loop with calls of
\* the store's setters or with a host's changes of the grid and the interactions
MaxShown == 5

\* The animation loop runs while the store's setters are called
InitClock == HilbertIdle /\ GridIdle(0, 0) /\ StoreDefaults /\ PipelineIdle(0)

NextClock ==
    \/ (uniforms.uTime < MaxShown /\ animate)
    \/ updateTime
    \/ onChangeTransform
    \/ updateRuntimeState

SpecClock == InitClock /\ [][NextClock]_vars

\* The animation loop runs while a host changes the grid and the interactions
InitSurface == HilbertIdle /\ GridIdle(0, 0) /\ StoreDefaults /\ PipelineIdle(0)

NextSurface ==
    \/ (uniforms.uTime < MaxShown /\ animate)
    \/ onGridChange
    \/ setActiveCellTransforms

SpecSurface == InitSurface /\ [][NextSurface]_vars

\* The material's cell-transform methods are called directly
InitCells == HilbertIdle /\ GridIdle(0, 0) /\ StoreDefaults /\ PipelineIdle(0)

NextCells == CallApplyCellTransform \/ CallClearCellTransforms

SpecCells == InitCells /\ [][NextCells]_vars

-----------------------------------------------------------------------------
(* The claims *)

RECURSIVE IsPowerOfTwo(_)
IsPowerOfTwo(n) == n = 1 \/ (n > 1 /\ n % 2 = 0 /\ IsPowerOfTwo(n \div 2))

\* The indices hilbertIndex gives the n x n grid
HilbertImage(n) == {hilbertIndex(n, x, y) : x \in Side(n), y \in Side(n)}

\* C1: for a grid side n that is a power of two, hilbertIndex(n, x, y) over all
\* 0 <= x, y < n is a bijection onto 0 .. n*n-1: the index returned for (x, y) is
\* in range, no other coordinate of the grid has it, and the indices of the grid
\* are exactly 0 .. n*n-1.
C1_IndexerBijective ==
    (hPc = "done" /\ IsPowerOfTwo(hN)) =>
        /\ hIndex \in 0 .. (hN * hN - 1)
        /\ \A x \in Side(hN), y \in Side(hN) :
              <<x, y>> # hArgs => hilbertIndex(hN, x, y) # hIndex
        /\ HilbertImage(hN) = 0 .. (hN * hN - 1)

\* C1 witness: on a grid of side 8 or more the call returned the last index
C1_Witness ==
    /\ hPc = "done"
    /\ IsPowerOfTwo(hN)
    /\ hN >= 8
    /\ hIndex = hN * hN - 1

\* C2: on the 8 x 8 grid the coordinates of the indices k and k+1 (k in 0 .. 62)
\* are at squared distance dx*dx + dy*dy of at most 2.
C2_IndexerLocal ==
    (hPc = "done" /\ hN = 8 /\ hIndex \in 0 .. 62) =>
        /\ \E x \in Side(8), y \in Side(8) : hilbertIndex(8, x, y) = hIndex + 1
        /\ \A x \in Side(8), y \in Side(8) :
              hilbertIndex(8, x, y) = hIndex + 1 =>
                  (x - hArgs[1]) * (x - hArgs[1]) + (y - hArgs[2]) * (y - hArgs[2]) <= 2

\* C2 witness: the call for the coordinate of index 62 on the 8 x 8 grid returned
C2_Witness ==
    /\ hPc = "done"
    /\ hN = 8
    /\ hIndex = 62
    /\ hilbertIndex(8, hArgs[1], hArgs[2]) = 62

\* The coordinate pair of the cell a reference points to
Coord(ref) == <<cells[ref].baseX, cells[ref].baseY>>

\* The coordinates of generateGrid's result, in its order
GenCoords == [k \in 1 .. Len(gen.grid) |-> Coord(gen.grid[k])] \o <<>>

\* The row-major enumeration: y outer from 0 to rows-1, x inner from 0 to cols-1
RowMajor(rows, cols) ==
    [k \in 1 .. (IF rows > 0 /\ cols > 0 THEN rows * cols ELSE 0) |->
        <<(k - 1) % cols, (k - 1) \div cols>>] \o <<>>

\* C3: generateGrid's result is ordered by ascending hilbertIndex when rows = cols
\* is a power of two (and holds every coordinate of the grid); in every other
\* configuration it is exactly the row-major enumeration.
C3_GridOrder ==
    gen.called =>
        IF gen.rows = gen.cols /\ IsPowerOfTwo(gen.rows)
        THEN /\ Len(gen.grid) = gen.rows * gen.cols
             /\ {GenCoords[k] : k \in 1 .. Len(gen.grid)} = Side(gen.cols) \X Side(gen.rows)
             /\ \A k \in 1 .. (Len(gen.grid) - 1) :
                   hilbertIndex(gen.rows, GenCoords[k][1], GenCoords[k][2])
                       <= hilbertIndex(gen.rows, GenCoords[k + 1][1], GenCoords[k + 1][2])
        ELSE GenCoords = RowMajor(gen.rows, gen.cols)

\* C3 witness: an 8 x 8 grid was generated, in another order than row-major
C3_Witness ==
    /\ gen.called
    /\ gen.rows = 8
    /\ gen.cols = 8
    /\ Len(gen.grid) = 64
    /\ GenCoords # RowMajor(8, 8)

\* C4: the cache holds at most one GridCell per coordinate pair: calls of getGridCell
\* with equal (x, y) have returned the same object, calls with different pairs
\* different objects, and every cell returned still has baseX = x and baseY = y.
C4_CacheIdentity ==
    /\ \A t1 \in returned, t2 \in returned :
          (t1[1] = t2[1] /\ t1[2] = t2[2]) <=> (t1[3] = t2[3])
    /\ \A t \in returned : cells[t[3]] = [baseX |-> t[1], baseY |-> t[2]]
    /\ \A k1 \in DOMAIN cellCache, k2 \in DOMAIN cellCache :
          Coord(cellCache[k1]) = Coord(cellCache[k2]) => k1 = k2

\* C4 witness: getGridCell(3, 5) allocated the first cell, getGridCell(5, 3) another
\* one, and a grid generated afterwards holds that first cell for (3, 5)
C4_Witness ==
    /\ gen.called
    /\ Len(cells) > 2
    /\ Coord(1) = <<3, 5>>
    /\ \E k \in 1 .. Len(gen.grid) : gen.grid[k] = 1
    /\ \E t \in returned : t[1] = 5 /\ t[2] = 3 /\ t[3] # 1

\* C5: while rotationModulation.enabled is false no frame and no call of
\* updateRotationDirection changes rotationDirection.
C5_DisabledFreezes ==
    [][~rotationModulation.enabled => rotationDirection' = rotationDirection]_vars

\* C5 witness: modulation was switched off after the direction had become -1, and
\* the timer is now more than two intervals past the last switch, under a pattern
\* that would flip
C5_Witness ==
    /\ ~rotationModulation.enabled
    /\ rotationModulation.pattern = "heaviside"
    /\ rotationDirection = -1
    /\ rotationTimer - lastRotationTime > 2 * rotationModulation.interval

\* C6: a step in which modulation is off, or in which the timer is not strictly more
\* than interval past lastRotationTime, changes neither rotationDirection nor
\* lastRotationTime, and a frame then hands mobiusFactor the direction held before.
C6_TransitionGuard ==
    [][~(/\ rotationModulation.enabled
         /\ rotationTimer' - lastRotationTime > rotationModulation.interval) =>
           /\ rotationDirection' = rotationDirection
           /\ lastRotationTime' = lastRotationTime
           /\ (time' # time /\ mobiusFactor # 0) =>
                  mobiusFactor' = Abs(mobiusFactor) * rotationDirection]_vars

\* C6 witness: modulation is on, a frame ran with the timer exactly interval past
\* the last switch, and nothing switched
C6_Witness ==
    /\ rotationModulation.enabled
    /\ rotationModulation.pattern = "heaviside"
    /\ rotationTimer > 0
    /\ rotationTimer - lastRotationTime = rotationModulation.interval
    /\ lastRotationTime = 0
    /\ rotationDirection = 1

\* C7: with pattern "heaviside" and the direction +1 at the start, every frame in
\* which modulation is on and the interval has elapsed multiplies the direction by
\* -1, and no other frame changes it: the direction is -1 after one such frame, +1
\* after two, and so on.
C7_HeavisideAlternates ==
    /\ [](rotationModulation.pattern = "heaviside" =>
             rotationDirection = IF switches % 2 = 0 THEN 1 ELSE -1)
    /\ [][rotationModulation.pattern = "heaviside" =>
             IF /\ rotationModulation.enabled
                /\ rotationTimer' - lastRotationTime > rotationModulation.interval
             THEN time' # time =>
                      rotationDirection' = -rotationDirection /\ switches' = switches + 1
             ELSE rotationDirection' = rotationDirection /\ switches' = switches]_vars

\* C7 witness: modulation was on throughout, and the frame in which the interval
\* elapsed for the second time has just flipped the direction back to +1
C7_Witness ==
    /\ rotationModulation.enabled
    /\ rotationModulation.pattern = "heaviside"
    /\ rotationTimer = 2 * (rotationModulation.interval + 1)
    /\ switches = 2
    /\ lastFlip = rotationTimer
    /\ rotationDirection = 1

\* C8: with the interval held constant, between two consecutive frames that change
\* rotationDirection the timer advances by more than interval.
C8_OncePerInterval ==
    [][(rotationDirection' # rotationDirection /\ lastFlip # -1) =>
           rotationTimer' - lastFlip > rotationModulation.interval]_vars

\* C8 witness: the direction has changed at least twice (it is back at +1) under
\* the random pattern
C8_Witness ==
    /\ rotationModulation.pattern = "random"
    /\ lastFlip > 0
    /\ rotationDirection = 1

\* C9: with pattern "kaprekar" every frame that triggers sets the direction to -1
\* if floor(rotationTimer * 10) mod 7 < patternThreshold and to +1 otherwise,
\* whatever the direction was.
C9_KaprekarFromScratch ==
    [][(/\ time' # time
        /\ rotationModulation.enabled
        /\ rotationModulation.pattern = "kaprekar"
        /\ rotationTimer' - lastRotationTime > rotationModulation.interval) =>
           rotationDirection' =
               IF ((rotationTimer' \div 10) % 7) < rotationModulation.patternThreshold
               THEN -1 ELSE 1]_vars

\* C9 witness: a kaprekar trigger in this frame left the direction at -1, the value
\* it already had since an earlier change (a flip would have made it +1)
C9_Witness ==
    /\ rotationModulation.enabled
    /\ rotationModulation.pattern = "kaprekar"
    /\ rotationTimer > 0
    /\ lastRotationTime = rotationTimer
    /\ rotationDirection = -1
    /\ lastFlip # -1
    /\ lastFlip < rotationTimer

\* C10: rotationDirection is +1 or -1 in every reachable state.
C10_DirectionIsUnit == rotationDirection \in {1, -1}

\* C10 witness: the sine pattern has switched the direction to -1
C10_Witness ==
    /\ rotationModulation.pattern = "sine"
    /\ rotationDirection = -1

\* C11: at the end of every animation frame mobiusFactor equals the magnitude it
\* had before the frame times the rotationDirection the frame ends with, whether or
\* not a transition triggered and whether or not modulation is on.
C11_FactorFollowsDirection ==
    [][time' # time =>
           mobiusFactor' = (IF mobiusFactor < 0 THEN -mobiusFactor ELSE mobiusFactor)
                               * rotationDirection']_vars

\* C11 witness: modulation is off, frames have run since the direction became -1,
\* and the factor carries that sign
C11_Witness ==
    /\ ~rotationModulation.enabled
    /\ rotationDirection = -1
    /\ rotationTimer > lastRotationTime + rotationModulation.interval
    /\ mobiusFactor = -3

\* C16: for every configuration with rows <= 0 or cols <= 0 generateGrid returns
\* an empty sequence (and it returns: the call completes).
C16_EmptyOnInvalidConfig ==
    (gen.called /\ (gen.rows <= 0 \/ gen.cols <= 0)) => gen.grid = <<>>

\* C16 witness: generateGrid has returned for a configuration with positive cols
\* and rows = 0
C16_Witness ==
    /\ gen.called
    /\ gen.rows = 0
    /\ gen.cols > 2
    /\ gen.grid = <<>>

\* C17: once the grid has been rebuilt for the configuration the store holds, the
\* cache holds only cells for coordinates of that configuration.
C17_CacheScopedToConfig ==
    (gen.called /\ gen.rows = gridRows /\ gen.cols = gridCols) =>
        \A k \in DOMAIN cellCache :
            Coord(cellCache[k]) \in Side(gridCols) \X Side(gridRows)

\* The last call was of applyClassicalMobius, of transformation.js or of the
\* vertex program; its arguments are x, y, the time and the coefficients
MobiusCall == probe.fn \in {"applyClassicalMobius", "shaderClassicalMobius"}

IsIdentity(params) ==
    /\ params.a_real = Num(1) /\ params.a_imag = Num(0)
    /\ params.b_real = Num(0) /\ params.b_imag = Num(0)
    /\ params.c_real = Num(0) /\ params.c_imag = Num(0)
    /\ params.d_real = Num(1) /\ params.d_imag = Num(0)

\* (x, y) turned about the origin by the angle phase
Turned(x, y, phase) ==
    <<RatSub(RatMul(x, Cos(phase)), RatMul(y, Sin(phase))),
      RatAdd(RatMul(x, Sin(phase)), RatMul(y, Cos(phase))),
      Num(0)>>

\* C12 as stated: with the identity coefficients a = 1, b = 0, c = 0, d = 1,
\* applyClassicalMobius returns (x, y) unchanged at every time, the animation
\* speed being the default 0.1.
C12_IdentityAtEveryTime ==
    (MobiusCall /\ IsIdentity(probe.args[4]))
        => probe.out.value = <<probe.args[1], probe.args[2], Num(0)>>

\* C12 as amended: with the identity coefficients applyClassicalMobius returns
\* (x, y) turned about the origin by the angle time * animationSpeed, so it
\* returns (x, y) unchanged when time * animationSpeed is 0.
C12_IdentityAtPhaseZero ==
    (MobiusCall /\ IsIdentity(probe.args[4]))
        => LET phase == RatMul(probe.args[3], probe.args[4].animationSpeed)
           IN  /\ probe.out.value = Turned(probe.args[1], probe.args[2], phase)
               /\ phase = Num(0)
                    => probe.out.value = <<probe.args[1], probe.args[2], Num(0)>>

C12_Witness ==
    /\ probe.fn = "applyClassicalMobius"
    /\ probe.args = <<Num(2), Rat(-7, 2), Num(0), IdentityCoefficients>>
    /\ probe.out.value = <<Num(2), Rat(-7, 2), Num(0)>>

\* The numerator a * z + b and the denominator c * z + d of the last call of
\* applyClassicalMobius, a turned by time * animationSpeed
NumeratorOfCall ==
    LET x == probe.args[1]
        y == probe.args[2]
        params == probe.args[4]
        phase == RatMul(probe.args[3], params.animationSpeed)
        ar == RatSub(RatMul(params.a_real, Cos(phase)), RatMul(params.a_imag, Sin(phase)))
        ai == RatAdd(RatMul(params.a_real, Sin(phase)), RatMul(params.a_imag, Cos(phase)))
    IN  <<RatAdd(RatSub(RatMul(ar, x), RatMul(ai, y)), params.b_real),
          RatAdd(RatAdd(RatMul(ar, y), RatMul(ai, x)), params.b_imag)>>

DenominatorOfCall ==
    LET x == probe.args[1]
        y == probe.args[2]
        params == probe.args[4]
    IN  <<RatAdd(RatSub(RatMul(params.c_real, x), RatMul(params.c_imag, y)), params.d_real),
          RatAdd(RatAdd(RatMul(params.c_real, y), RatMul(params.c_imag, x)), params.d_imag)>>

\* |v|^2 of a complex number
MagnitudeSq(v) == RatAdd(RatMul(v[1], v[1]), RatMul(v[2], v[2]))

\* |v| < 0.0001
NearZero(v) ==
    /\ RatLess(MagnitudeSq(v), Num(1))
    /\ RatLess(RatMul(MagnitudeSq(v), Num(100000000)), Num(1))

\* C13: when |c*z + d|^2 < 0.0001, applyClassicalMobius returns the origin if
\* the numerator a*z + b is within 0.0001 of zero, and otherwise the numerator
\* rescaled to magnitude 1000 (same direction); the result is finite.
C13_SingularityRegularized ==
    (MobiusCall /\ RatLess(MagnitudeSq(DenominatorOfCall), Rat(1, 10000)))
        => LET out == probe.out.value
           IN  /\ ~probe.out.raised
               /\ out[1][2] > 0 /\ out[2][2] > 0 /\ out[3] = Num(0)
               /\ IF NearZero(NumeratorOfCall)
                  THEN out = <<Num(0), Num(0), Num(0)>>
                  ELSE /\ MagnitudeSq(out) = Num(1000000)
                       /\ RatMul(out[1], NumeratorOfCall[2])
                            = RatMul(out[2], NumeratorOfCall[1])
                       /\ RatLess(Num(0),
                                  RatAdd(RatMul(out[1], NumeratorOfCall[1]),
                                         RatMul(out[2], NumeratorOfCall[2])))

C13_Witness ==
    /\ probe.fn = "applyClassicalMobius"
    /\ probe.args[1] = Num(0) /\ probe.args[2] = Num(0)
    /\ probe.args[4] = [IdentityCoefficients EXCEPT !.c_real = Num(1), !.d_real = Num(0)]
    /\ probe.out.value = <<Num(0), Num(0), Num(0)>>

\* sin(0.5 * k) for k = 0 .. 7, in thousandths
SinHalf == <<0, 480, 842, 998, 910, 598, 142, -351>>

\* The store holds the end-to-end scenario: time 0, amplitude 1, both
\* frequencies 0.5, classical mode with the identity coefficients, noiseScale 0
EndToEndScenario ==
    /\ time = 0
    /\ transform.chladniAmplitude = Num(1)
    /\ transform.chladniFrequencyX = Rat(1, 2)
    /\ transform.chladniFrequencyY = Rat(1, 2)
    /\ transform.useClassicalMobius
    /\ IsIdentity(transform)
    /\ transform.noiseScale = Num(0)

\* C14: in the end-to-end scenario transformPosition(x, y) returns x and y
\* unchanged and z = sin(0.5 * x) * sin(0.5 * y), for every cell of the 8 x 8
\* grid.
C14_EndToEnd ==
    (probe.fn = "transformPosition" /\ EndToEndScenario)
        => /\ ~probe.out.raised
           /\ probe.out.value.x = probe.args[1]
           /\ probe.out.value.y = probe.args[2]
           /\ probe.out.value.z = Rat(SinHalf[probe.args[1][1] + 1]
                                        * SinHalf[probe.args[2][1] + 1], 1000000)

C14_Witness ==
    /\ probe.fn = "transformPosition"
    /\ EndToEndScenario
    /\ probe.args = <<Num(3), Num(5)>>
    /\ probe.out.value.z = Rat(998 * 598, 1000000)

\* C15: with amplitude 0 and noiseScale 0 the wave term of createChladniMatrix
\* is exactly 0, whatever x, y, time and the frequencies.
C15_ZeroAmplitudeZeroWave ==
    (probe.fn = "createChladniMatrix" /\ probe.args[4] = Num(0) /\ probe.args[7] = Num(0))
        => probe.out.value = <<Num(0), Num(0), Num(0)>>

C15_Witness ==
    /\ probe.fn = "createChladniMatrix"
    /\ probe.args[1] = Num(1) /\ probe.args[2] = Num(3) /\ probe.args[3] = Num(1)
    /\ probe.args[4] = Num(0) /\ probe.args[7] = Num(0)
    /\ probe.out.value[3] = Num(0)

\* C18: at the end of every frame every pipeline uniform equals the field of
\* stateStore.transform it mirrors: uChladniAmplitude, uChladniFrequencyX,
\* uChladniFrequencyY, uUseClassicalMobius, uMobiusFactor, uNoiseScale,
\* uAnimationSpeed (mobiusAnimationSpeed) and, in classical mode, uA, uB, uC, uD
\* (the pairs a, b, c, d).
C18_UniformsMirrorStore ==
    [][time' # time =>
        /\ uniforms'.uChladniAmplitude = transform'.chladniAmplitude
        /\ uniforms'.uChladniFrequencyX = transform'.chladniFrequencyX
        /\ uniforms'.uChladniFrequencyY = transform'.chladniFrequencyY
        /\ uniforms'.uUseClassicalMobius = transform'.useClassicalMobius
        /\ uniforms'.uMobiusFactor = Rat(mobiusFactor', 10)
        /\ uniforms'.uNoiseScale = transform'.noiseScale
        /\ uniforms'.uAnimationSpeed = transform'.mobiusAnimationSpeed
        /\ transform'.useClassicalMobius =>
             /\ uniforms'.uA = <<transform'.a_real, transform'.a_imag>>
             /\ uniforms'.uB = <<transform'.b_real, transform'.b_imag>>
             /\ uniforms'.uC = <<transform'.c_real, transform'.c_imag>>
             /\ uniforms'.uD = <<transform'.d_real, transform'.d_imag>>]_vars

\* C19: in the CPU path (transformPosition) and in the GPU path (the vertex
\* program's main) the wave term is computed at the original base coordinates
\* and added to the z carried from stage 2.
C19_WaveFromBaseCoordinates ==
    (probe.fn \in {"transformPosition", "main"} /\ ~probe.out.raised)
        => /\ probe.out.value.waveAt = <<probe.args[1], probe.args[2]>>
           /\ probe.out.value.z = RatAdd(probe.out.value.carried, probe.out.value.wave)

\* C20: in enhanced mode (useClassicalMobius false) the pipeline evaluates
\* without raising and returns a position.
C20_EnhancedEvaluates ==
    (probe.fn = "transformPosition" /\ ~transform.useClassicalMobius)
        => ~probe.out.raised

\* C21: hilbertIndex(n, x, y) terminates for every non-negative integer n, a
\* power of two or not, n = 0 and n = 1 included: every call that has entered
\* the loop returns.
C21_Terminates == (hPc = "loop") ~> (hPc = "done")

\* A call with an n that is no power of two, with n = 0 or with n = 1 has returned
C21_Witness ==
    /\ hPc = "done"
    /\ hN \in {0, 1, 6, 12}
    /\ hArgs = <<hN \div 2, 0>>

\* C22: every call of updateRotationDirection that triggers (modulation on and
\* rotationTimer - lastRotationTime > interval), in a frame or outside, sets
\* lastRotationTime to the current rotationTimer, also when the pattern yields
\* the direction held before.
C22_TriggerRestartsInterval ==
    [][(\/ /\ time' # time
           /\ rotationModulation.enabled
           /\ rotationTimer' - lastRotationTime > rotationModulation.interval
        \/ switches' # switches) =>
           lastRotationTime' = rotationTimer']_vars

\* C22 witness: the sine pattern has triggered, the trigger just made left the
\* direction at the +1 it has had from the start, and the interval restarted
C22_Witness ==
    /\ rotationModulation.enabled
    /\ rotationModulation.pattern = "sine"
    /\ switches > 0
    /\ lastFlip = -1
    /\ rotationDirection = 1
    /\ lastRotationTime = rotationTimer

\* C23: with a pattern other than "kaprekar", "heaviside", "sine" and "random"
\* every trigger multiplies the direction by -1.
C23_DefaultPatternFlips ==
    [][(/\ rotationModulation.pattern \notin {"kaprekar", "heaviside", "sine", "random"}
        /\ \/ /\ time' # time
              /\ rotationModulation.enabled
              /\ rotationTimer' - lastRotationTime > rotationModulation.interval
           \/ switches' # switches) =>
           rotationDirection' = -rotationDirection]_vars

\* C23 witness: under the unknown pattern the second trigger has just flipped
\* the direction back to +1
C23_Witness ==
    /\ rotationModulation.pattern \notin {"kaprekar", "heaviside", "sine", "random"}
    /\ switches = 2
    /\ lastFlip = rotationTimer
    /\ rotationDirection = 1

\* C29: every frame advances rotationTimer; a frame in which modulation is
\* disabled leaves lastRotationTime as it is; and a frame in which modulation is
\* enabled, the first one after a re-enabling included, triggers a transition
\* whenever rotationTimer - lastRotationTime > interval, the difference being
\* measured from the last trigger before the disabling.
C29_DisabledKeepsSwitchTime ==
    [][time' # time =>
           /\ rotationTimer' = rotationTimer + 1
           /\ ~rotationModulation.enabled => lastRotationTime' = lastRotationTime
           /\ (/\ rotationModulation.enabled
               /\ rotationTimer' - lastRotationTime > rotationModulation.interval) =>
                  /\ switches' = switches + 1
                  /\ lastRotationTime' = rotationTimer']_vars

\* C29 witness: with the interval at 0.5 s modulation was switched off after frame
\* 120 (two triggers had happened, at frames 51 and 102) and on again after frame
\* 330, and frame 331, the first one after that, has triggered the third
\* transition
C29_Witness ==
    /\ rotationModulation.enabled
    /\ rotationModulation.interval = 50
    /\ time = 331
    /\ rotationTimer = 331
    /\ lastRotationTime = 331
    /\ switches = 3

\* C24: for rows >= 1 and cols >= 1 generateGrid returns exactly rows * cols
\* cells, every coordinate (x, y) with 0 <= x < cols and 0 <= y < rows exactly
\* once (sorting only permutes), each element is the cell the cache holds for
\* its coordinate, and after the call the cache has an entry for every such
\* coordinate.
C24_GridCoversLattice ==
    (gen.called /\ gen.rows >= 1 /\ gen.cols >= 1) =>
        /\ Len(gen.grid) = gen.rows * gen.cols
        /\ \A c \in Side(gen.cols) \X Side(gen.rows) :
              /\ Cardinality({k \in 1 .. Len(gen.grid) : GenCoords[k] = c}) = 1
              /\ Key(c[1], c[2]) \in DOMAIN cellCache
        /\ \A k \in 1 .. Len(gen.grid) :
              /\ Key(GenCoords[k][1], GenCoords[k][2]) \in DOMAIN cellCache
              /\ gen.grid[k] = cellCache[Key(GenCoords[k][1], GenCoords[k][2])]

\* C24 witness: a 6 x 8 grid (not sorted) was generated after getGridCell(5, 3)
\* had put the first cell into the cache, and the grid holds that cell
C24_Witness ==
    /\ gen.called
    /\ gen.rows = 6
    /\ gen.cols = 8
    /\ Len(gen.grid) = 48
    /\ Coord(1) = <<5, 3>>
    /\ \E k \in 1 .. Len(gen.grid) : gen.grid[k] = 1

\* The three noise samples of stage 1 at the base point (x, y) and time t, as
\* createNoiseDisplacementMatrix takes them
CpuNoiseSamples(x, y, t) ==
    LET sx == RatMul(x, Rat(1, 5))
        sy == RatMul(y, Rat(1, 5))
    IN  <<noise3D(noiseSeed, sx, sy, RatMul(t, Rat(1, 10))),
          noise3D(noiseSeed, sx, sy, RatAdd(RatMul(t, Rat(3, 20)), Num(100))),
          noise3D(noiseSeed, sx, sy, RatAdd(RatMul(t, Rat(1, 20)), Num(200)))>>

\* The same samples as applyNoiseDisplacement takes them
GpuNoiseSamples(x, y, t) ==
    LET sx == RatMul(x, Rat(1, 5))
        sy == RatMul(y, Rat(1, 5))
    IN  <<snoise3(sx, sy, RatMul(t, Rat(1, 10))),
          snoise3(sx, sy, RatAdd(RatMul(t, Rat(3, 20)), Num(100))),
          snoise3(sx, sy, RatAdd(RatMul(t, Rat(1, 20)), Num(200)))>>

\* scale * (n[1], n[2], 0.5 * n[3])
FullScale(scale, n) ==
    <<RatMul(scale, n[1]), RatMul(scale, n[2]), RatMul(scale, RatMul(Rat(1, 2), n[3]))>>

\* C25: stage 1 translates the base position by exactly
\* noiseScale * (n(x, y, t), n(x, y, t + phase1), 0.5 * n(x, y, t + phase2)):
\* x and y by the full noiseScale, z by half of it, in the CPU path
\* (transformPosition, through createCombinedMatrix) as in the GPU path (main,
\* through applyNoiseDisplacement).
C25_StageOneFullScale ==
    /\ (probe.fn = "transformPosition" /\ ~probe.out.raised) =>
           probe.out.value.displaced =
               FullScale(transform.noiseScale,
                         CpuNoiseSamples(probe.args[1], probe.args[2], Rat(time, 100)))
    /\ probe.fn = "main" =>
           probe.out.value.displaced =
               FullScale(probe.args[3].uNoiseScale,
                         GpuNoiseSamples(probe.args[1], probe.args[2],
                                         Rat(probe.args[3].uTime, 100)))

\* An animation frame: the only step that advances the material's clock
FrameStep == uniforms'.uTime # uniforms.uTime

\* C26: the GPU time uniform is in lock-step with the store: after any sequence
\* of animation frames interleaved with calls of the store's setters
\* (updateTime, updateTransformParams, updateRuntimeState), at the end of each
\* frame uTime equals stateStore.time.
C26_TimeUniformInLockStep ==
    [][FrameStep => uniforms'.uTime = time']_vars

\* C27: after any sequence of applyCellTransform and clearCellTransforms calls
\* 0 <= uTransformCount <= 10; applyCellTransform at count 10 returns false and
\* changes no uniform (centers, radii, count, propagation type); below capacity
\* it returns true, adds 1 to the count and writes the center and the radius
\* into slot [old count].
C27_TransformCountBounded ==
    /\ [](cellUniforms.uTransformCount \in 0 .. 10)
    /\ [][probe'.fn = "applyCellTransform" =>
             IF cellUniforms.uTransformCount = 10
             THEN /\ probe'.out.value = FALSE
                  /\ cellUniforms' = cellUniforms
             ELSE /\ probe'.out.value = TRUE
                  /\ cellUniforms'.uTransformCount = cellUniforms.uTransformCount + 1
                  /\ cellUniforms'.uTransformCenters[cellUniforms.uTransformCount + 1]
                         = probe'.args[1]
                  /\ cellUniforms'.uTransformRadii[cellUniforms.uTransformCount + 1]
                         = probe'.args[2]]_vars

\* C27 witness: the material is full, with the first slot written again after a
\* clearing, and the last call, applyCellTransform with the other center, was
\* refused
C27_Witness ==
    /\ cellUniforms.uTransformCount = 10
    /\ probe.fn = "applyCellTransform"
    /\ probe.out.value = FALSE
    /\ probe.args[1] = <<Num(2), Num(3)>>
    /\ cellUniforms.uTransformCenters[1] = <<Num(1), Num(1)>>
    /\ cellUniforms.uTransformCenters[10] = <<Num(1), Num(1)>>
    /\ cellUniforms.uTransformCenters[2] = <<Num(2), Num(3)>>

\* min(a, b)
Min(a, b) == IF a < b THEN a ELSE b

\* C28: at the end of every frame uTransformCount equals
\* min(10, number of entries of state.interactions.activeCellTransforms),
\* however the list has changed between the frames, its becoming empty after
\* having had entries included.
C28_CountFollowsList ==
    [][FrameStep =>
           cellUniforms'.uTransformCount = Min(10, Len(activeCellTransforms'))]_vars

\* C30: a frame with state.grid.needsUpdate false leaves uGridSize,
\* uGridResolution and uGridDensity as they are; a frame with needsUpdate true
\* gives them the values of state.grid.size, resolution and density; and
\* needsUpdate is false after the frame.
C30_GridUniformsOnlyOnUpdate ==
    [][FrameStep =>
           /\ ~storeGrid'.needsUpdate
           /\ IF storeGrid.needsUpdate
              THEN /\ cellUniforms'.uGridSize = storeGrid.size
                   /\ cellUniforms'.uGridResolution = storeGrid.resolution
                   /\ cellUniforms'.uGridDensity = storeGrid.density
              ELSE /\ cellUniforms'.uGridSize = cellUniforms.uGridSize
                   /\ cellUniforms'.uGridResolution = cellUniforms.uGridResolution
                   /\ cellUniforms'.uGridDensity = cellUniforms.uGridDensity]_vars

=============================================================================
